---------------------------- MODULE Spec2Model ----------------------------
(* The tensor-name resolver of gguf (src/mod/gguf/tensor_mapping.py) over   *)
(* the registry tables of src/mod/gguf/constants.py.                        *)
EXTENDS Integers, Sequences, FiniteSets, TLC

\* class GGUF_MODEL_ARCH(IntEnum), in declaration order.
GGUF_MODEL_ARCH ==
    << "LLAMA", "FALCON", "BAICHUAN", "GROK", "GPT2", "GPTJ",
       "GPTNEOX", "MPT", "STARCODER", "REFACT", "BERT", "NOMIC_BERT",
       "JINA_BERT_V2", "BLOOM", "STABLELM", "QWEN", "QWEN2", "QWEN2MOE",
       "PHI2", "PHI3", "PLAMO", "CODESHELL", "ORION", "INTERNLM2",
       "MINICPM", "GEMMA", "STARCODER2", "MAMBA", "XVERSE", "COMMAND_R",
       "DBRX", "OLMO", "ARCTIC" >>

\* class GGUF_MODEL_TENSOR(IntEnum), in declaration order.
GGUF_MODEL_TENSOR ==
    << "TOKEN_EMBD", "TOKEN_EMBD_NORM", "TOKEN_TYPES", "POS_EMBD", "OUTPUT",
       "OUTPUT_NORM", "ROPE_FREQS", "ROPE_FACTORS_LONG", "ROPE_FACTORS_SHORT", "ATTN_Q",
       "ATTN_K", "ATTN_V", "ATTN_QKV", "ATTN_OUT", "ATTN_NORM",
       "ATTN_NORM_2", "ATTN_OUT_NORM", "ATTN_ROT_EMBD", "FFN_GATE_INP", "FFN_GATE_INP_SHEXP",
       "FFN_NORM", "FFN_GATE", "FFN_DOWN", "FFN_UP", "FFN_ACT",
       "FFN_NORM_EXP", "FFN_GATE_EXP", "FFN_DOWN_EXP", "FFN_UP_EXP", "FFN_GATE_SHEXP",
       "FFN_DOWN_SHEXP", "FFN_UP_SHEXP", "ATTN_Q_NORM", "ATTN_K_NORM", "LAYER_OUT_NORM",
       "SSM_IN", "SSM_CONV1D", "SSM_X", "SSM_DT", "SSM_A",
       "SSM_D", "SSM_OUT" >>

\* GGUF_TENSOR_NAMES: role -> canonical name template. A template is the
\* sequence of its literal pieces and its "{bid}" / "{xid}" replacement fields.
GGUF_TENSOR_NAMES ==
    [ TOKEN_EMBD |-> <<"token_embd">>,
      TOKEN_EMBD_NORM |-> <<"token_embd_norm">>,
      TOKEN_TYPES |-> <<"token_types">>,
      POS_EMBD |-> <<"position_embd">>,
      OUTPUT_NORM |-> <<"output_norm">>,
      OUTPUT |-> <<"output">>,
      ROPE_FREQS |-> <<"rope_freqs">>,
      ROPE_FACTORS_LONG |-> <<"rope_factors_long">>,
      ROPE_FACTORS_SHORT |-> <<"rope_factors_short">>,
      ATTN_NORM |-> <<"blk.", "{bid}", ".attn_norm">>,
      ATTN_NORM_2 |-> <<"blk.", "{bid}", ".attn_norm_2">>,
      ATTN_QKV |-> <<"blk.", "{bid}", ".attn_qkv">>,
      ATTN_Q |-> <<"blk.", "{bid}", ".attn_q">>,
      ATTN_K |-> <<"blk.", "{bid}", ".attn_k">>,
      ATTN_V |-> <<"blk.", "{bid}", ".attn_v">>,
      ATTN_OUT |-> <<"blk.", "{bid}", ".attn_output">>,
      ATTN_ROT_EMBD |-> <<"blk.", "{bid}", ".attn_rot_embd">>,
      ATTN_Q_NORM |-> <<"blk.", "{bid}", ".attn_q_norm">>,
      ATTN_K_NORM |-> <<"blk.", "{bid}", ".attn_k_norm">>,
      ATTN_OUT_NORM |-> <<"blk.", "{bid}", ".attn_output_norm">>,
      FFN_GATE_INP |-> <<"blk.", "{bid}", ".ffn_gate_inp">>,
      FFN_GATE_INP_SHEXP |-> <<"blk.", "{bid}", ".ffn_gate_inp_shexp">>,
      FFN_NORM |-> <<"blk.", "{bid}", ".ffn_norm">>,
      FFN_GATE |-> <<"blk.", "{bid}", ".ffn_gate">>,
      FFN_DOWN |-> <<"blk.", "{bid}", ".ffn_down">>,
      FFN_UP |-> <<"blk.", "{bid}", ".ffn_up">>,
      FFN_GATE_SHEXP |-> <<"blk.", "{bid}", ".ffn_gate_shexp">>,
      FFN_DOWN_SHEXP |-> <<"blk.", "{bid}", ".ffn_down_shexp">>,
      FFN_UP_SHEXP |-> <<"blk.", "{bid}", ".ffn_up_shexp">>,
      FFN_ACT |-> <<"blk.", "{bid}", ".ffn">>,
      FFN_NORM_EXP |-> <<"blk.", "{bid}", ".ffn_norm_exps">>,
      FFN_GATE_EXP |-> <<"blk.", "{bid}", ".ffn_gate_exps">>,
      FFN_DOWN_EXP |-> <<"blk.", "{bid}", ".ffn_down_exps">>,
      FFN_UP_EXP |-> <<"blk.", "{bid}", ".ffn_up_exps">>,
      LAYER_OUT_NORM |-> <<"blk.", "{bid}", ".layer_output_norm">>,
      SSM_IN |-> <<"blk.", "{bid}", ".ssm_in">>,
      SSM_CONV1D |-> <<"blk.", "{bid}", ".ssm_conv1d">>,
      SSM_X |-> <<"blk.", "{bid}", ".ssm_x">>,
      SSM_DT |-> <<"blk.", "{bid}", ".ssm_dt">>,
      SSM_A |-> <<"blk.", "{bid}", ".ssm_a">>,
      SSM_D |-> <<"blk.", "{bid}", ".ssm_d">>,
      SSM_OUT |-> <<"blk.", "{bid}", ".ssm_out">> ]

\* GGUF_MODEL_TENSORS: architecture -> list of the roles it has.
GGUF_MODEL_TENSORS ==
    [ LLAMA |->
        << "TOKEN_EMBD", "OUTPUT_NORM", "OUTPUT", "ROPE_FREQS", "ATTN_NORM",
           "ATTN_Q", "ATTN_K", "ATTN_V", "ATTN_OUT", "ATTN_ROT_EMBD",
           "FFN_GATE_INP", "FFN_NORM", "FFN_GATE", "FFN_DOWN", "FFN_UP",
           "FFN_GATE_EXP", "FFN_DOWN_EXP", "FFN_UP_EXP" >>,
      GROK |->
        << "TOKEN_EMBD", "OUTPUT_NORM", "OUTPUT", "ROPE_FREQS", "ATTN_NORM",
           "ATTN_Q", "ATTN_K", "ATTN_V", "ATTN_OUT", "ATTN_ROT_EMBD",
           "ATTN_OUT_NORM", "FFN_GATE_INP", "FFN_NORM", "FFN_GATE", "FFN_DOWN",
           "FFN_UP", "FFN_GATE_EXP", "FFN_DOWN_EXP", "FFN_UP_EXP", "LAYER_OUT_NORM" >>,
      GPTNEOX |->
        << "TOKEN_EMBD", "OUTPUT_NORM", "OUTPUT", "ATTN_NORM", "ATTN_QKV",
           "ATTN_OUT", "FFN_NORM", "FFN_DOWN", "FFN_UP" >>,
      FALCON |->
        << "TOKEN_EMBD", "OUTPUT_NORM", "OUTPUT", "ATTN_NORM", "ATTN_NORM_2",
           "ATTN_QKV", "ATTN_OUT", "FFN_DOWN", "FFN_UP" >>,
      BAICHUAN |->
        << "TOKEN_EMBD", "OUTPUT_NORM", "OUTPUT", "ROPE_FREQS", "ATTN_NORM",
           "ATTN_Q", "ATTN_K", "ATTN_V", "ATTN_OUT", "ATTN_ROT_EMBD",
           "FFN_NORM", "FFN_GATE", "FFN_DOWN", "FFN_UP" >>,
      STARCODER |->
        << "TOKEN_EMBD", "POS_EMBD", "OUTPUT_NORM", "OUTPUT", "ATTN_NORM",
           "ATTN_QKV", "ATTN_OUT", "FFN_NORM", "FFN_DOWN", "FFN_UP" >>,
      BERT |->
        << "TOKEN_EMBD", "TOKEN_EMBD_NORM", "TOKEN_TYPES", "POS_EMBD", "OUTPUT_NORM",
           "ATTN_OUT_NORM", "ATTN_Q", "ATTN_K", "ATTN_V", "ATTN_OUT",
           "FFN_DOWN", "FFN_UP", "LAYER_OUT_NORM" >>,
      NOMIC_BERT |->
        << "TOKEN_EMBD", "TOKEN_EMBD_NORM", "TOKEN_TYPES", "POS_EMBD", "OUTPUT_NORM",
           "ATTN_OUT_NORM", "ATTN_QKV", "ATTN_OUT", "FFN_GATE", "FFN_DOWN",
           "FFN_UP", "LAYER_OUT_NORM" >>,
      JINA_BERT_V2 |->
        << "TOKEN_EMBD", "TOKEN_EMBD_NORM", "TOKEN_TYPES", "ATTN_OUT_NORM", "ATTN_Q",
           "ATTN_Q_NORM", "ATTN_K", "ATTN_K_NORM", "ATTN_V", "ATTN_OUT",
           "FFN_UP", "FFN_GATE", "FFN_DOWN", "LAYER_OUT_NORM" >>,
      MPT |->
        << "TOKEN_EMBD", "OUTPUT_NORM", "OUTPUT", "ATTN_NORM", "ATTN_QKV",
           "ATTN_OUT", "FFN_NORM", "FFN_DOWN", "FFN_UP", "FFN_ACT",
           "ATTN_Q_NORM", "ATTN_K_NORM", "POS_EMBD" >>,
      GPTJ |->
        << "TOKEN_EMBD", "OUTPUT_NORM", "OUTPUT", "ATTN_NORM", "ATTN_Q",
           "ATTN_K", "ATTN_V", "ATTN_OUT", "FFN_DOWN", "FFN_UP" >>,
      REFACT |->
        << "TOKEN_EMBD", "OUTPUT_NORM", "OUTPUT", "ATTN_NORM", "ATTN_Q",
           "ATTN_K", "ATTN_V", "ATTN_OUT", "FFN_NORM", "FFN_GATE",
           "FFN_DOWN", "FFN_UP" >>,
      BLOOM |->
        << "TOKEN_EMBD", "TOKEN_EMBD_NORM", "OUTPUT_NORM", "OUTPUT", "ATTN_NORM",
           "ATTN_QKV", "ATTN_OUT", "FFN_NORM", "FFN_DOWN", "FFN_UP" >>,
      STABLELM |->
        << "TOKEN_EMBD", "OUTPUT_NORM", "OUTPUT", "ROPE_FREQS", "ATTN_NORM",
           "ATTN_Q", "ATTN_K", "ATTN_V", "ATTN_OUT", "FFN_NORM",
           "FFN_GATE", "FFN_DOWN", "FFN_UP", "ATTN_Q_NORM", "ATTN_K_NORM" >>,
      QWEN |->
        << "TOKEN_EMBD", "OUTPUT_NORM", "OUTPUT", "ROPE_FREQS", "ATTN_NORM",
           "ATTN_QKV", "ATTN_OUT", "ATTN_ROT_EMBD", "FFN_NORM", "FFN_GATE",
           "FFN_DOWN", "FFN_UP" >>,
      QWEN2 |->
        << "TOKEN_EMBD", "OUTPUT_NORM", "OUTPUT", "ATTN_NORM", "ATTN_Q",
           "ATTN_K", "ATTN_V", "ATTN_OUT", "FFN_NORM", "FFN_GATE",
           "FFN_DOWN", "FFN_UP" >>,
      QWEN2MOE |->
        << "TOKEN_EMBD", "OUTPUT_NORM", "OUTPUT", "ATTN_NORM", "ATTN_Q",
           "ATTN_K", "ATTN_V", "ATTN_OUT", "FFN_NORM", "FFN_GATE_INP",
           "FFN_GATE_EXP", "FFN_DOWN_EXP", "FFN_UP_EXP", "FFN_GATE_INP_SHEXP", "FFN_GATE_SHEXP",
           "FFN_DOWN_SHEXP", "FFN_UP_SHEXP" >>,
      PLAMO |->
        << "TOKEN_EMBD", "OUTPUT_NORM", "OUTPUT", "ROPE_FREQS", "ATTN_NORM",
           "ATTN_Q", "ATTN_K", "ATTN_V", "ATTN_OUT", "ATTN_ROT_EMBD",
           "FFN_GATE", "FFN_DOWN", "FFN_UP" >>,
      GPT2 |->
        << "TOKEN_EMBD", "POS_EMBD", "OUTPUT_NORM", "OUTPUT", "ATTN_NORM",
           "ATTN_QKV", "ATTN_OUT", "FFN_NORM", "FFN_DOWN", "FFN_UP" >>,
      PHI2 |->
        << "TOKEN_EMBD", "OUTPUT_NORM", "OUTPUT", "ATTN_NORM", "ATTN_QKV",
           "ATTN_Q", "ATTN_K", "ATTN_V", "ATTN_OUT", "FFN_NORM",
           "FFN_DOWN", "FFN_UP" >>,
      PHI3 |->
        << "TOKEN_EMBD", "OUTPUT_NORM", "OUTPUT", "ATTN_NORM", "ATTN_QKV",
           "ATTN_Q", "ATTN_K", "ATTN_V", "ATTN_OUT", "FFN_NORM",
           "FFN_DOWN", "FFN_UP" >>,
      CODESHELL |->
        << "TOKEN_EMBD", "POS_EMBD", "OUTPUT_NORM", "OUTPUT", "ATTN_NORM",
           "ATTN_QKV", "ATTN_OUT", "ATTN_ROT_EMBD", "FFN_NORM", "FFN_DOWN",
           "FFN_UP" >>,
      ORION |->
        << "TOKEN_EMBD", "OUTPUT_NORM", "OUTPUT", "ROPE_FREQS", "ATTN_NORM",
           "ATTN_Q", "ATTN_K", "ATTN_V", "ATTN_OUT", "ATTN_ROT_EMBD",
           "FFN_NORM", "FFN_GATE", "FFN_DOWN", "FFN_UP" >>,
      INTERNLM2 |->
        << "TOKEN_EMBD", "OUTPUT_NORM", "OUTPUT", "ATTN_NORM", "ATTN_Q",
           "ATTN_K", "ATTN_V", "ATTN_OUT", "ATTN_ROT_EMBD", "FFN_NORM",
           "FFN_GATE", "FFN_DOWN", "FFN_UP" >>,
      MINICPM |->
        << "TOKEN_EMBD", "OUTPUT_NORM", "ROPE_FREQS", "ATTN_NORM", "ATTN_Q",
           "ATTN_K", "ATTN_V", "ATTN_OUT", "ATTN_ROT_EMBD", "FFN_GATE_INP",
           "FFN_NORM", "FFN_GATE", "FFN_DOWN", "FFN_UP", "FFN_GATE_EXP",
           "FFN_DOWN_EXP", "FFN_UP_EXP" >>,
      GEMMA |->
        << "TOKEN_EMBD", "OUTPUT_NORM", "ATTN_NORM", "ATTN_Q", "ATTN_K",
           "ATTN_V", "ATTN_OUT", "FFN_GATE", "FFN_DOWN", "FFN_UP",
           "FFN_NORM" >>,
      STARCODER2 |->
        << "TOKEN_EMBD", "OUTPUT_NORM", "OUTPUT", "ROPE_FREQS", "ATTN_NORM",
           "ATTN_Q", "ATTN_K", "ATTN_V", "ATTN_OUT", "ATTN_ROT_EMBD",
           "FFN_NORM", "FFN_DOWN", "FFN_UP" >>,
      MAMBA |->
        << "TOKEN_EMBD", "OUTPUT_NORM", "OUTPUT", "ATTN_NORM", "SSM_IN",
           "SSM_CONV1D", "SSM_X", "SSM_DT", "SSM_A", "SSM_D",
           "SSM_OUT" >>,
      XVERSE |->
        << "TOKEN_EMBD", "OUTPUT_NORM", "OUTPUT", "ROPE_FREQS", "ATTN_NORM",
           "ATTN_Q", "ATTN_K", "ATTN_V", "ATTN_OUT", "ATTN_ROT_EMBD",
           "FFN_NORM", "FFN_GATE", "FFN_DOWN", "FFN_UP" >>,
      COMMAND_R |->
        << "TOKEN_EMBD", "OUTPUT_NORM", "ATTN_NORM", "ATTN_Q", "ATTN_K",
           "ATTN_V", "ATTN_OUT", "FFN_GATE", "FFN_DOWN", "FFN_UP",
           "ATTN_K_NORM", "ATTN_Q_NORM" >>,
      DBRX |->
        << "TOKEN_EMBD", "OUTPUT_NORM", "OUTPUT", "ATTN_NORM", "ATTN_QKV",
           "ATTN_OUT", "ATTN_OUT_NORM", "FFN_GATE_INP", "FFN_GATE_EXP", "FFN_DOWN_EXP",
           "FFN_UP_EXP" >>,
      OLMO |->
        << "TOKEN_EMBD", "OUTPUT", "ATTN_Q", "ATTN_K", "ATTN_V",
           "ATTN_OUT", "FFN_GATE", "FFN_DOWN", "FFN_UP" >>,
      ARCTIC |->
        << "TOKEN_EMBD", "OUTPUT_NORM", "OUTPUT", "ROPE_FREQS", "ATTN_NORM",
           "ATTN_Q", "ATTN_K", "ATTN_V", "ATTN_OUT", "ATTN_ROT_EMBD",
           "FFN_GATE_INP", "FFN_NORM", "FFN_GATE", "FFN_DOWN", "FFN_UP",
           "FFN_NORM_EXP", "FFN_GATE_EXP", "FFN_DOWN_EXP", "FFN_UP_EXP" >> ]

\* GGUF_MODEL_TENSOR_SKIP: architecture -> roles that are not serialized.
GGUF_MODEL_TENSOR_SKIP ==
    [ LLAMA |-> <<"ROPE_FREQS", "ATTN_ROT_EMBD">>,
      BAICHUAN |-> <<"ROPE_FREQS", "ATTN_ROT_EMBD">>,
      QWEN |-> <<"ROPE_FREQS", "ATTN_ROT_EMBD">>,
      CODESHELL |-> <<"ROPE_FREQS", "ATTN_ROT_EMBD">>,
      ORION |-> <<"ROPE_FREQS", "ATTN_ROT_EMBD">>,
      STARCODER2 |-> <<"ROPE_FREQS", "ATTN_ROT_EMBD">>,
      XVERSE |-> <<"ROPE_FREQS", "ATTN_ROT_EMBD">> ]

\* TensorNameMap.mappings_cfg: a dict, as the sequence of its (role, alias
\* templates) items in insertion order, which is the order a dict iterates in.
mappings_cfg ==
    << <<"TOKEN_EMBD", <<
          <<"gpt_neox.embed_in">>,
          <<"transformer.wte">>,
          <<"transformer.word_embeddings">>,
          <<"word_embeddings">>,
          <<"model.embed_tokens">>,
          <<"tok_embeddings">>,
          <<"embeddings.word_embeddings">>,
          <<"language_model.embedding.word_embeddings">>,
          <<"wte">>,
          <<"transformer.embd.wte">>,
          <<"model.tok_embeddings">>,
          <<"model.embedding">>,
          <<"backbone.embedding">>,
          <<"backbone.embeddings">>,
          <<"transformer.in_out_embed">> >> >>,
       <<"TOKEN_TYPES", <<
          <<"embeddings.token_type_embeddings">> >> >>,
       <<"TOKEN_EMBD_NORM", <<
          <<"word_embeddings_layernorm">>,
          <<"embeddings.LayerNorm">>,
          <<"emb_ln">> >> >>,
       <<"POS_EMBD", <<
          <<"transformer.wpe">>,
          <<"embeddings.position_embeddings">>,
          <<"wpe">> >> >>,
       <<"OUTPUT", <<
          <<"embed_out">>,
          <<"lm_head">>,
          <<"output">>,
          <<"word_embeddings_for_head">>,
          <<"lm_head.linear">> >> >>,
       <<"OUTPUT_NORM", <<
          <<"gpt_neox.final_layer_norm">>,
          <<"transformer.ln_f">>,
          <<"model.norm">>,
          <<"norm">>,
          <<"transformer.norm_f">>,
          <<"ln_f">>,
          <<"language_model.encoder.final_layernorm">>,
          <<"model.final_layernorm">>,
          <<"lm_head.ln">>,
          <<"model.norm_f">>,
          <<"backbone.norm_f">>,
          <<"transformer.rms_norm">> >> >>,
       <<"ROPE_FREQS", <<
          <<"rope.freqs">> >> >> >>

\* TensorNameMap.block_mappings_cfg as the class body defines it.
block_mappings_cfg_src ==
    << <<"ATTN_NORM", <<
          <<"gpt_neox.layers.", "{bid}", ".input_layernorm">>,
          <<"transformer.h.", "{bid}", ".ln_1">>,
          <<"transformer.blocks.", "{bid}", ".norm_1">>,
          <<"transformer.h.", "{bid}", ".input_layernorm">>,
          <<"h.", "{bid}", ".input_layernorm">>,
          <<"transformer.h.", "{bid}", ".ln_mlp">>,
          <<"model.layers.", "{bid}", ".input_layernorm">>,
          <<"layers.", "{bid}", ".attention_norm">>,
          <<"language_model.encoder.layers.", "{bid}", ".input_layernorm">>,
          <<"model.layers.", "{bid}", ".ln1">>,
          <<"h.", "{bid}", ".ln_1">>,
          <<"transformer.h.", "{bid}", ".ln">>,
          <<"model.layers.layers.", "{bid}", ".norm">>,
          <<"model.layers.", "{bid}", ".attention_norm">>,
          <<"model.layers.", "{bid}", ".norm">>,
          <<"backbone.layers.", "{bid}", ".norm">>,
          <<"transformer.decoder_layer.", "{bid}", ".rms_norm">>,
          <<"transformer.blocks.", "{bid}", ".norm_attn_norm.norm_1">> >> >>,
       <<"ATTN_NORM_2", <<
          <<"transformer.h.", "{bid}", ".ln_attn">> >> >>,
       <<"ATTN_QKV", <<
          <<"gpt_neox.layers.", "{bid}", ".attention.query_key_value">>,
          <<"transformer.h.", "{bid}", ".attn.c_attn">>,
          <<"transformer.blocks.", "{bid}", ".attn.Wqkv">>,
          <<"transformer.blocks.", "{bid}", ".norm_attn_norm.attn.Wqkv">>,
          <<"transformer.h.", "{bid}", ".self_attention.query_key_value">>,
          <<"h.", "{bid}", ".self_attention.query_key_value">>,
          <<"language_model.encoder.layers.", "{bid}", ".self_attention.query_key_value">>,
          <<"model.layers.", "{bid}", ".self_attn.query_key_value">>,
          <<"h.", "{bid}", ".attn.c_attn">>,
          <<"transformer.h.", "{bid}", ".mixer.Wqkv">>,
          <<"encoder.layers.", "{bid}", ".attn.Wqkv">>,
          <<"model.layers.", "{bid}", ".self_attn.qkv_proj">> >> >>,
       <<"ATTN_Q", <<
          <<"model.layers.", "{bid}", ".self_attn.q_proj">>,
          <<"layers.", "{bid}", ".attention.wq">>,
          <<"encoder.layer.", "{bid}", ".attention.self.query">>,
          <<"transformer.h.", "{bid}", ".attn.q_proj">>,
          <<"model.layers.layers.", "{bid}", ".self_attn.q_proj">>,
          <<"model.layers.", "{bid}", ".attention.wq">>,
          <<"transformer.decoder_layer.", "{bid}", ".multi_head_attention.query">> >> >>,
       <<"ATTN_K", <<
          <<"model.layers.", "{bid}", ".self_attn.k_proj">>,
          <<"layers.", "{bid}", ".attention.wk">>,
          <<"encoder.layer.", "{bid}", ".attention.self.key">>,
          <<"transformer.h.", "{bid}", ".attn.k_proj">>,
          <<"transformer.h.", "{bid}", ".attn.k">>,
          <<"model.layers.layers.", "{bid}", ".self_attn.k_proj">>,
          <<"model.layers.", "{bid}", ".attention.wk">>,
          <<"transformer.decoder_layer.", "{bid}", ".multi_head_attention.key">> >> >>,
       <<"ATTN_V", <<
          <<"model.layers.", "{bid}", ".self_attn.v_proj">>,
          <<"layers.", "{bid}", ".attention.wv">>,
          <<"encoder.layer.", "{bid}", ".attention.self.value">>,
          <<"transformer.h.", "{bid}", ".attn.v_proj">>,
          <<"transformer.h.", "{bid}", ".attn.v">>,
          <<"model.layers.layers.", "{bid}", ".self_attn.v_proj">>,
          <<"model.layers.", "{bid}", ".attention.wv">>,
          <<"transformer.decoder_layer.", "{bid}", ".multi_head_attention.value">> >> >>,
       <<"ATTN_OUT", <<
          <<"gpt_neox.layers.", "{bid}", ".attention.dense">>,
          <<"transformer.h.", "{bid}", ".attn.c_proj">>,
          <<"transformer.blocks.", "{bid}", ".attn.out_proj">>,
          <<"transformer.h.", "{bid}", ".self_attention.dense">>,
          <<"h.", "{bid}", ".self_attention.dense">>,
          <<"model.layers.", "{bid}", ".self_attn.o_proj">>,
          <<"layers.", "{bid}", ".attention.wo">>,
          <<"encoder.layer.", "{bid}", ".attention.output.dense">>,
          <<"transformer.h.", "{bid}", ".attn.out_proj">>,
          <<"language_model.encoder.layers.", "{bid}", ".self_attention.dense">>,
          <<"model.layers.", "{bid}", ".self_attn.dense">>,
          <<"h.", "{bid}", ".attn.c_proj">>,
          <<"transformer.h.", "{bid}", ".mixer.out_proj">>,
          <<"model.layers.layers.", "{bid}", ".self_attn.o_proj">>,
          <<"model.layers.", "{bid}", ".attention.wo">>,
          <<"encoder.layers.", "{bid}", ".attn.out_proj">>,
          <<"transformer.decoder_layer.", "{bid}", ".multi_head_attention.linear">>,
          <<"transformer.blocks.", "{bid}", ".norm_attn_norm.attn.out_proj">> >> >>,
       <<"ATTN_OUT_NORM", <<
          <<"encoder.layer.", "{bid}", ".attention.output.LayerNorm">>,
          <<"encoder.layers.", "{bid}", ".norm1">>,
          <<"transformer.decoder_layer.", "{bid}", ".rms_norm_1">>,
          <<"transformer.blocks.", "{bid}", ".norm_attn_norm.norm_2">> >> >>,
       <<"ATTN_ROT_EMBD", <<
          <<"model.layers.", "{bid}", ".self_attn.rotary_emb.inv_freq">>,
          <<"layers.", "{bid}", ".attention.inner_attention.rope.freqs">>,
          <<"model.layers.layers.", "{bid}", ".self_attn.rotary_emb.inv_freq">>,
          <<"transformer.h.", "{bid}", ".attn.rotary_emb.inv_freq">> >> >>,
       <<"FFN_NORM", <<
          <<"gpt_neox.layers.", "{bid}", ".post_attention_layernorm">>,
          <<"transformer.h.", "{bid}", ".ln_2">>,
          <<"h.", "{bid}", ".post_attention_layernorm">>,
          <<"transformer.blocks.", "{bid}", ".norm_2">>,
          <<"model.layers.", "{bid}", ".post_attention_layernorm">>,
          <<"layers.", "{bid}", ".ffn_norm">>,
          <<"language_model.encoder.layers.", "{bid}", ".post_attention_layernorm">>,
          <<"model.layers.", "{bid}", ".ln2">>,
          <<"h.", "{bid}", ".ln_2">>,
          <<"model.layers.", "{bid}", ".ffn_norm">>,
          <<"transformer.decoder_layer.", "{bid}", ".rms_norm_2">> >> >>,
       <<"FFN_GATE_INP", <<
          <<"layers.", "{bid}", ".feed_forward.gate">>,
          <<"model.layers.", "{bid}", ".block_sparse_moe.gate">>,
          <<"model.layers.", "{bid}", ".mlp.gate">>,
          <<"transformer.decoder_layer.", "{bid}", ".router">>,
          <<"transformer.blocks.", "{bid}", ".ffn.router.layer">> >> >>,
       <<"FFN_GATE_INP_SHEXP", <<
          <<"model.layers.", "{bid}", ".mlp.shared_expert_gate">> >> >>,
       <<"FFN_UP", <<
          <<"gpt_neox.layers.", "{bid}", ".mlp.dense_h_to_4h">>,
          <<"transformer.h.", "{bid}", ".mlp.c_fc">>,
          <<"transformer.blocks.", "{bid}", ".ffn.up_proj">>,
          <<"transformer.h.", "{bid}", ".mlp.dense_h_to_4h">>,
          <<"h.", "{bid}", ".mlp.dense_h_to_4h">>,
          <<"model.layers.", "{bid}", ".mlp.up_proj">>,
          <<"layers.", "{bid}", ".feed_forward.w3">>,
          <<"encoder.layer.", "{bid}", ".intermediate.dense">>,
          <<"transformer.h.", "{bid}", ".mlp.fc_in">>,
          <<"transformer.h.", "{bid}", ".mlp.linear_3">>,
          <<"language_model.encoder.layers.", "{bid}", ".mlp.dense_h_to_4h">>,
          <<"model.layers.", "{bid}", ".mlp.dense_h_to_4h">>,
          <<"transformer.h.", "{bid}", ".mlp.w1">>,
          <<"h.", "{bid}", ".mlp.c_fc">>,
          <<"transformer.h.", "{bid}", ".mlp.fc1">>,
          <<"model.layers.", "{bid}", ".mlp.fc1">>,
          <<"model.layers.", "{bid}", ".mlp.gate_up_proj">>,
          <<"model.layers.layers.", "{bid}", ".mlp.up_proj">>,
          <<"model.layers.", "{bid}", ".feed_forward.w3">>,
          <<"encoder.layers.", "{bid}", ".mlp.fc11">>,
          <<"model.layers.", "{bid}", ".mlp.c_fc">>,
          <<"encoder.layer.", "{bid}", ".mlp.gated_layers_v">>,
          <<"model.layers.", "{bid}", ".residual_mlp.w3">> >> >>,
       <<"FFN_UP_EXP", <<
          <<"layers.", "{bid}", ".feed_forward.experts.w3">>,
          <<"transformer.decoder_layer.", "{bid}", ".moe.linear_v">>,
          <<"transformer.blocks.", "{bid}", ".ffn.experts.mlp.v1">>,
          <<"model.layers.", "{bid}", ".mlp.experts.up_proj">> >> >>,
       <<"FFN_UP_SHEXP", <<
          <<"model.layers.", "{bid}", ".mlp.shared_expert.up_proj">> >> >>,
       <<"FFN_ACT", <<
          <<"transformer.blocks.", "{bid}", ".ffn.act">> >> >>,
       <<"FFN_GATE", <<
          <<"model.layers.", "{bid}", ".mlp.gate_proj">>,
          <<"layers.", "{bid}", ".feed_forward.w1">>,
          <<"transformer.h.", "{bid}", ".mlp.w2">>,
          <<"model.layers.layers.", "{bid}", ".mlp.gate_proj">>,
          <<"model.layers.", "{bid}", ".feed_forward.w1">>,
          <<"encoder.layers.", "{bid}", ".mlp.fc12">>,
          <<"encoder.layer.", "{bid}", ".mlp.gated_layers_w">>,
          <<"transformer.h.", "{bid}", ".mlp.linear_1">>,
          <<"model.layers.", "{bid}", ".residual_mlp.w1">> >> >>,
       <<"FFN_GATE_EXP", <<
          <<"layers.", "{bid}", ".feed_forward.experts.w1">>,
          <<"transformer.decoder_layer.", "{bid}", ".moe.linear">>,
          <<"transformer.blocks.", "{bid}", ".ffn.experts.mlp.w1">>,
          <<"model.layers.", "{bid}", ".mlp.experts.gate_proj">> >> >>,
       <<"FFN_GATE_SHEXP", <<
          <<"model.layers.", "{bid}", ".mlp.shared_expert.gate_proj">> >> >>,
       <<"FFN_DOWN", <<
          <<"gpt_neox.layers.", "{bid}", ".mlp.dense_4h_to_h">>,
          <<"transformer.h.", "{bid}", ".mlp.c_proj">>,
          <<"transformer.blocks.", "{bid}", ".ffn.down_proj">>,
          <<"transformer.h.", "{bid}", ".mlp.dense_4h_to_h">>,
          <<"h.", "{bid}", ".mlp.dense_4h_to_h">>,
          <<"model.layers.", "{bid}", ".mlp.down_proj">>,
          <<"layers.", "{bid}", ".feed_forward.w2">>,
          <<"encoder.layer.", "{bid}", ".output.dense">>,
          <<"transformer.h.", "{bid}", ".mlp.fc_out">>,
          <<"language_model.encoder.layers.", "{bid}", ".mlp.dense_4h_to_h">>,
          <<"model.layers.", "{bid}", ".mlp.dense_4h_to_h">>,
          <<"h.", "{bid}", ".mlp.c_proj">>,
          <<"transformer.h.", "{bid}", ".mlp.fc2">>,
          <<"model.layers.", "{bid}", ".mlp.fc2">>,
          <<"model.layers.layers.", "{bid}", ".mlp.down_proj">>,
          <<"model.layers.", "{bid}", ".feed_forward.w2">>,
          <<"encoder.layers.", "{bid}", ".mlp.fc2">>,
          <<"model.layers.", "{bid}", ".mlp.c_proj">>,
          <<"encoder.layer.", "{bid}", ".mlp.wo">>,
          <<"model.layers.", "{bid}", ".residual_mlp.w2">> >> >>,
       <<"FFN_DOWN_EXP", <<
          <<"layers.", "{bid}", ".feed_forward.experts.w2">>,
          <<"transformer.decoder_layer.", "{bid}", ".moe.linear_1">>,
          <<"transformer.blocks.", "{bid}", ".ffn.experts.mlp.w2">>,
          <<"model.layers.", "{bid}", ".mlp.experts.down_proj">> >> >>,
       <<"FFN_DOWN_SHEXP", <<
          <<"model.layers.", "{bid}", ".mlp.shared_expert.down_proj">> >> >>,
       <<"ATTN_Q_NORM", <<
          <<"language_model.encoder.layers.", "{bid}", ".self_attention.q_layernorm">>,
          <<"model.layers.", "{bid}", ".self_attn.q_layernorm">>,
          <<"model.layers.", "{bid}", ".self_attn.q_norm">>,
          <<"transformer.blocks.", "{bid}", ".attn.q_ln">>,
          <<"encoder.layer.", "{bid}", ".attention.self.layer_norm_q">> >> >>,
       <<"ATTN_K_NORM", <<
          <<"language_model.encoder.layers.", "{bid}", ".self_attention.k_layernorm">>,
          <<"model.layers.", "{bid}", ".self_attn.k_layernorm">>,
          <<"model.layers.", "{bid}", ".self_attn.k_norm">>,
          <<"transformer.blocks.", "{bid}", ".attn.k_ln">>,
          <<"encoder.layer.", "{bid}", ".attention.self.layer_norm_k">> >> >>,
       <<"ROPE_FREQS", <<
          <<"language_model.encoder.layers.", "{bid}", ".self_attention.rotary_emb.inv_freq">> >> >>,
       <<"LAYER_OUT_NORM", <<
          <<"encoder.layer.", "{bid}", ".output.LayerNorm">>,
          <<"encoder.layers.", "{bid}", ".norm2">>,
          <<"transformer.decoder_layer.", "{bid}", ".rms_norm_3">>,
          <<"encoder.layer.", "{bid}", ".mlp.layernorm">> >> >>,
       <<"SSM_IN", <<
          <<"model.layers.", "{bid}", ".in_proj">>,
          <<"backbone.layers.", "{bid}", ".mixer.in_proj">> >> >>,
       <<"SSM_CONV1D", <<
          <<"model.layers.", "{bid}", ".conv1d">>,
          <<"backbone.layers.", "{bid}", ".mixer.conv1d">> >> >>,
       <<"SSM_X", <<
          <<"model.layers.", "{bid}", ".x_proj">>,
          <<"backbone.layers.", "{bid}", ".mixer.x_proj">> >> >>,
       <<"SSM_DT", <<
          <<"model.layers.", "{bid}", ".dt_proj">>,
          <<"backbone.layers.", "{bid}", ".mixer.dt_proj">> >> >>,
       <<"SSM_A", <<
          <<"model.layers.", "{bid}", ".A_log">>,
          <<"backbone.layers.", "{bid}", ".mixer.A_log">> >> >>,
       <<"SSM_D", <<
          <<"model.layers.", "{bid}", ".D">>,
          <<"backbone.layers.", "{bid}", ".mixer.D">> >> >>,
       <<"SSM_OUT", <<
          <<"model.layers.", "{bid}", ".out_proj">>,
          <<"backbone.layers.", "{bid}", ".mixer.out_proj">> >> >> >>

\* TensorNameMap.arch_block_mappings_cfg: architecture -> dict of overrides.
\* The override table without the override of FFN_NORM, whose global aliases
\* hold the alias that ARCTIC gives to FFN_NORM_EXP.
arch_block_mappings_cfg_NoNormOverride ==
    [ ARCTIC |->
        << <<"FFN_NORM_EXP", <<<<"model.layers.", "{bid}", ".post_attention_layernorm">>>> >> >> ]

\* The override table with an alias that carries the expert index.
arch_block_mappings_cfg_PerExpert ==
    [ ARCTIC |->
        << <<"FFN_NORM", <<<<"model.layers.", "{bid}", ".residual_layernorm">>>> >>,
           <<"FFN_NORM_EXP", <<<<"model.layers.", "{bid}", ".experts.", "{xid}",
                                 ".post_attention_layernorm">>>> >> >> ]

\* The override table with an override for a role that has no name.
arch_block_mappings_cfg_UnnamedRole ==
    [ ARCTIC |->
        << <<"FFN_NORM", <<<<"model.layers.", "{bid}", ".residual_layernorm">>>> >>,
           <<"FFN_NORM_EXP", <<<<"model.layers.", "{bid}", ".post_attention_layernorm">>>> >>,
           <<"FFN_NORM_SHEXP", <<<<"model.layers.", "{bid}", ".shared_layernorm">>>> >> >> ]

arch_block_mappings_cfg ==
    [ ARCTIC |->
        << <<"FFN_NORM", <<<<"model.layers.", "{bid}", ".residual_layernorm">>>> >>,
           <<"FFN_NORM_EXP", <<<<"model.layers.", "{bid}", ".post_attention_layernorm">>>> >> >> ]
-----------------------------------------------------------------------------
(* Sequences, dicts and strings.  A Python dict is the sequence of its      *)
(* (key, value) items in insertion order, the order a dict iterates in.     *)

Range(s) == { s[i] : i \in DOMAIN s }

DictKeys(d) == { d[i][1] : i \in DOMAIN d }

DictGet(d, k) == LET i == CHOOSE j \in DOMAIN d : d[j][1] = k IN d[i][2]

\* d[k] = d[k] + v for an existing key.
DictSet_Extend(d, k, v) ==
    IF k \in DictKeys(d)
    THEN [ i \in DOMAIN d |-> IF d[i][1] = k THEN <<k, d[i][2] \o v>> ELSE d[i] ]
    ELSE Append(d, <<k, v>>)

\* d[k] = v: an existing key keeps its position, a new key goes last.
DictSet(d, k, v) ==
    IF k \in DictKeys(d)
    THEN [ i \in DOMAIN d |-> IF d[i][1] = k THEN <<k, v>> ELSE d[i] ]
    ELSE Append(d, <<k, v>>)

\* d.update(other)
RECURSIVE DictUpdate(_, _)
DictUpdate(d, other) ==
    IF other = << >> THEN d
    ELSE DictUpdate(DictSet(d, Head(other)[1], Head(other)[2]), Tail(other))

\* One replacement field of str.format(bid=bid, xid=xid).
FormatField(p, bid, xid) ==
    IF p = "{bid}" THEN ToString(bid)
    ELSE IF p = "{xid}" THEN ToString(xid)
    ELSE p

\* template.format(bid=bid, xid=xid)
RECURSIVE Format(_, _, _)
Format(t, bid, xid) ==
    IF t = << >> THEN ""
    ELSE FormatField(Head(t), bid, xid) \o Format(Tail(t), bid, xid)

\* The template's own text, which is what the code uses where it does not
\* call format (the top-level loop of __init__).
RECURSIVE Text(_)
Text(t) == IF t = << >> THEN "" ELSE Head(t) \o Text(Tail(t))

\* key.endswith(suffix)
EndsWith(key, suffix) ==
    /\ Len(suffix) <= Len(key)
    /\ SubSeq(key, Len(key) - Len(suffix) + 1, Len(key)) = suffix

\* key[: -len(suffix)].  With len(suffix) = 0 this is key[:0], the empty string.
StripSuffix(key, suffix) ==
    IF Len(suffix) = 0 THEN ""
    ELSE SubSeq(key, 1, Len(key) - Len(suffix))

\* The outcome of a call: the value it returns, or the error it fails with.
Ok(v) == [ok |-> TRUE, value |-> v]

Fail(e) == [ok |-> FALSE, error |-> e]

\* GGUF_MODEL_TENSORS.get(arch, ()): no roles for an architecture without entry.
rolesFor_Get(arch) ==
    IF arch \in DOMAIN GGUF_MODEL_TENSORS THEN Ok(GGUF_MODEL_TENSORS[arch])
    ELSE Ok(<< >>)

\* GGUF_MODEL_TENSORS[arch] (lines 366 and 376), which raises KeyError for an
\* architecture without entry.
rolesFor(arch) ==
    IF arch \in DOMAIN GGUF_MODEL_TENSORS THEN Ok(GGUF_MODEL_TENSORS[arch])
    ELSE Fail("KeyError")

\* GGUF_TENSOR_NAMES[tensor] (lines 368 and 381), which raises KeyError for a
\* role without name.
canonicalTemplate(tensor) ==
    IF tensor \in DOMAIN GGUF_TENSOR_NAMES THEN Ok(GGUF_TENSOR_NAMES[tensor])
    ELSE Fail("KeyError")

\* GGUF_MODEL_TENSOR_SKIP[arch]
skipSetFor_Subscript(arch) ==
    IF arch \in DOMAIN GGUF_MODEL_TENSOR_SKIP
    THEN Ok(Range(GGUF_MODEL_TENSOR_SKIP[arch]))
    ELSE Fail("KeyError")

\* skipSetFor(arch) -> set of TensorRole
skipSetFor(arch) ==
    IF arch \in DOMAIN GGUF_MODEL_TENSOR_SKIP
    THEN Ok(Range(GGUF_MODEL_TENSOR_SKIP[arch]))
    ELSE Ok({})

-----------------------------------------------------------------------------
(* TensorNameMap.__init__                                                   *)

\* n_experts = 128 (line 379)
n_experts == 128

\* The largest n_blocks the model builds a TensorNameMap with.
MaxBlocks == 2

\* self.mapping = {}
EmptyMapping == [ k \in {} |-> << >> ]

\* self.mapping[k] = v for every k of ks
Assign(m, ks, v) == [ k \in ks |-> v ] @@ m

\* for i in range(lo, hi): m = Body(m, i).  The iterations run in the order
\* lo, lo + 1, ..., hi - 1; the range is halved, and the first half evaluated
\* before the second starts, only to keep the depth of the evaluation logarithmic.
RECURSIVE ForRange(_, _, _, _)
ForRange(Body(_, _), m, lo, hi) ==
    IF lo >= hi THEN m
    ELSE IF hi = lo + 1 THEN Body(m, lo)
    ELSE LET mid == (lo + hi) \div 2
             first == ForRange(Body, m, lo, mid)
         IN  IF DOMAIN first = {} THEN ForRange(Body, first, mid, hi)
             ELSE ForRange(Body, first, mid, hi)

\* lines 366-371: the body of the loop over mappings_cfg.items()
TopLevelItem(m, arch, item) ==
    LET tensor == item[1]
        keys == item[2]
        tensor_name == Text(GGUF_TENSOR_NAMES[tensor])
    IN  IF tensor \notin Range(rolesFor(arch).value) THEN m
        ELSE Assign(Assign(m, {tensor_name}, <<tensor, tensor_name>>),
                    { Text(keys[j]) : j \in DOMAIN keys }, <<tensor, tensor_name>>)

\* The body of the loop over xid without line 382.
ExpertStep_AliasesOnly(m, tensor, keys, bid, xid) ==
    LET tensor_name == Format(GGUF_TENSOR_NAMES[tensor], bid, xid)
    IN  Assign(m, { Format(keys[j], bid, xid) : j \in DOMAIN keys },
               <<tensor, tensor_name>>)

\* The body of the loop over xid with the canonical name numbered from 1.
ExpertStep_OneBased(m, tensor, keys, bid, xid) ==
    LET tensor_name == Format(GGUF_TENSOR_NAMES[tensor], bid + 1, xid)
    IN  Assign(Assign(m, {tensor_name}, <<tensor, tensor_name>>),
               { Format(keys[j], bid, xid) : j \in DOMAIN keys },
               <<tensor, tensor_name>>)

\* The body of the loop over xid with the aliases numbered from 1.
ExpertStep_AliasOneBased(m, tensor, keys, bid, xid) ==
    LET tensor_name == Format(GGUF_TENSOR_NAMES[tensor], bid, xid)
    IN  Assign(Assign(m, {tensor_name}, <<tensor, tensor_name>>),
               { Format(keys[j], bid + 1, xid) : j \in DOMAIN keys },
               <<tensor, tensor_name>>)

\* lines 381-385: the body of the loop over xid
ExpertStep(m, tensor, keys, bid, xid) ==
    LET tensor_name == Format(GGUF_TENSOR_NAMES[tensor], bid, xid)
    IN  Assign(Assign(m, {tensor_name}, <<tensor, tensor_name>>),
               { Format(keys[j], bid, xid) : j \in DOMAIN keys },
               <<tensor, tensor_name>>)

\* lines 380-385: what the whole xid loop of one (tensor, keys) item at one bid
\* writes, as the mapping it would leave in an empty dict.
ExpertLoop(item, bid) ==
    ForRange(LAMBDA m, xid : ExpertStep(m, item[1], item[2], bid, xid),
             EmptyMapping, 0, n_experts)

\* Every (tensor, keys) item the class body puts in a block table.
SourceItems ==
    Range(block_mappings_cfg_src)
        \cup UNION { Range(arch_block_mappings_cfg[a]) : a \in DOMAIN arch_block_mappings_cfg }

\* ExpertLoop tabulated over the items of the source and the block indices the
\* model uses, so that each 128-iteration loop is evaluated once.
ExpertLoopTable ==
    [ item \in SourceItems, bid \in 0 .. MaxBlocks |-> ExpertLoop(item, bid) ]

ExpertLoopOf(item, bid) ==
    IF item \in SourceItems /\ bid \in 0 .. MaxBlocks THEN ExpertLoopTable[item, bid]
    ELSE ExpertLoop(item, bid)

\* The body of the loop over block_mappings_cfg.items() passing over the roles
\* of GGUF_MODEL_TENSOR_SKIP as well.
BlockItem_Skipping(m, arch, item, bid) ==
    IF \/ item[1] \notin Range(rolesFor(arch).value)
       \/ /\ arch \in DOMAIN GGUF_MODEL_TENSOR_SKIP
          /\ item[1] \in Range(GGUF_MODEL_TENSOR_SKIP[arch])
    THEN m
    ELSE ExpertLoopOf(item, bid) @@ m

\* The body of the loop over block_mappings_cfg.items() without lines 376-377.
BlockItem_NoFilter(m, arch, item, bid) == ExpertLoopOf(item, bid) @@ m

\* lines 376-385: the body of the loop over block_mappings_cfg.items().  The
\* writes of the xid loop land on self.mapping in order, so they leave m
\* overridden by what they leave in an empty dict.
BlockItem(m, arch, item, bid) ==
    IF item[1] \notin Range(rolesFor(arch).value) THEN m
    ELSE ExpertLoopOf(item, bid) @@ m

\* The block table without the overrides of the architecture.
MergedCfg_NoOverride(cfg, arch) == cfg

\* lines 372-373: self.block_mappings_cfg.update(...) on the class attribute
MergedCfg(cfg, arch) ==
    IF arch \in DOMAIN arch_block_mappings_cfg
    THEN DictUpdate(cfg, arch_block_mappings_cfg[arch])
    ELSE cfg

\* __init__ with the block loop over range(n_blocks - 1).
TensorNameMap_init_LastBlockMissing(arch, n_blocks, cfg) ==
    LET merged == MergedCfg(cfg, arch)
        top == ForRange(LAMBDA m, i : TopLevelItem(m, arch, mappings_cfg[i + 1]),
                        EmptyMapping, 0, Len(mappings_cfg))
    IN  ForRange(LAMBDA m, bid :
                     ForRange(LAMBDA mm, i : BlockItem(mm, arch, merged[i + 1], bid),
                              m, 0, Len(merged)),
                 top, 0, n_blocks - 1)

\* lines 363-385: self.mapping as __init__ leaves it, with the class attribute
\* block_mappings_cfg holding cfg when __init__ starts.
TensorNameMap_init(arch, n_blocks, cfg) ==
    LET merged == MergedCfg(cfg, arch)
        top == ForRange(LAMBDA m, i : TopLevelItem(m, arch, mappings_cfg[i + 1]),
                        EmptyMapping, 0, Len(mappings_cfg))
    IN  ForRange(LAMBDA m, bid :
                     ForRange(LAMBDA mm, i : BlockItem(mm, arch, merged[i + 1], bid),
                              m, 0, Len(merged)),
                 top, 0, n_blocks)

\* __init__ over a mapping that raises when a key it holds is assigned again:
\* that happens in the second iteration of the first xid loop.
InitError_OnCollision(arch, n_blocks, cfg) ==
    IF arch \notin DOMAIN GGUF_MODEL_TENSORS THEN "top"
    ELSE IF /\ n_blocks > 0
            /\ \E i \in DOMAIN cfg : cfg[i][1] \in Range(GGUF_MODEL_TENSORS[arch])
         THEN "block"
         ELSE ""

\* Where __init__ raises KeyError: "top" in the loop over mappings_cfg (line 366
\* or 368), "block" in the loop over block_mappings_cfg (line 376 or 381),
\* "" when it returns.
InitError(arch, n_blocks, cfg) ==
    LET merged == MergedCfg(cfg, arch)
        Raises(items) ==
            /\ Len(items) > 0
            /\ \/ ~rolesFor(arch).ok
               \/ \E i \in DOMAIN items :
                      /\ items[i][1] \in Range(rolesFor(arch).value)
                      /\ ~canonicalTemplate(items[i][1]).ok
    IN  IF Raises(mappings_cfg) THEN "top"
        ELSE IF n_blocks > 0 /\ Raises(merged) THEN "block"
        ELSE ""

\* __init__ tabulated over the block tables the class attribute can hold after
\* at most one update, so that a build is evaluated once.
KnownCfgs ==
    {block_mappings_cfg_src}
        \cup { MergedCfg(block_mappings_cfg_src, a) : a \in DOMAIN arch_block_mappings_cfg }

\* The n_blocks a TensorNameMap is built with.
BlockCounts == 0 .. MaxBlocks

InitTable ==
    [ arch \in Range(GGUF_MODEL_ARCH), n_blocks \in BlockCounts, cfg \in KnownCfgs |->
        TensorNameMap_init(arch, n_blocks, cfg) ]

\* TensorNameMap(arch, n_blocks).mapping
TensorNameMap(arch, n_blocks, cfg) ==
    IF arch \in Range(GGUF_MODEL_ARCH) /\ n_blocks \in BlockCounts /\ cfg \in KnownCfgs
    THEN InitTable[arch, n_blocks, cfg]
    ELSE TensorNameMap_init(arch, n_blocks, cfg)

-----------------------------------------------------------------------------
(* The lookup methods.  None is the empty tuple; the pair get_type_and_name *)
(* returns is a tuple; where a method returns a name or a role or None, the  *)
(* name or role v is the tuple <<v>>; a raised KeyError(key) is the tuple    *)
(* <<"KeyError", key>>.                                                      *)

None == << >>

Some(v) == <<v>>

KeyError(key) == <<"KeyError", key>>

\* self.mapping[key], which raises.
MappingGet_Raise(m, key) == IF key \in DOMAIN m THEN m[key] ELSE KeyError(key)

\* self.mapping.get(key)
MappingGet(m, key) == IF key \in DOMAIN m THEN m[key] ELSE None

\* One iteration that returns the entry of the remainder as it is.
SuffixStep_NoAppend(m, key, suffix) ==
    IF EndsWith(key, suffix) THEN MappingGet(m, StripSuffix(key, suffix)) ELSE None

\* lines 394-397: one iteration of the loop over try_suffixes; the value it
\* returns, or None when it goes on to the next suffix.
SuffixStep(m, key, suffix) ==
    LET result == IF EndsWith(key, suffix)
                  THEN MappingGet(m, StripSuffix(key, suffix))
                  ELSE None
    IN  IF result # None THEN <<result[1], result[2] \o suffix>> ELSE None

\* The loop returning at the first suffix that the key ends with, whether the
\* remainder is registered or not.
RECURSIVE SuffixLoop_StopAtFirstMatch(_, _, _, _)
SuffixLoop_StopAtFirstMatch(m, key, try_suffixes, i) ==
    IF i > Len(try_suffixes) THEN None
    ELSE IF EndsWith(key, try_suffixes[i]) THEN SuffixStep(m, key, try_suffixes[i])
    ELSE SuffixLoop_StopAtFirstMatch(m, key, try_suffixes, i + 1)

\* lines 393-398: the loop over try_suffixes, from its i-th element on
RECURSIVE SuffixLoop(_, _, _, _)
SuffixLoop(m, key, try_suffixes, i) ==
    IF i > Len(try_suffixes) THEN None
    ELSE LET result == SuffixStep(m, key, try_suffixes[i])
         IN  IF result # None THEN result
             ELSE SuffixLoop(m, key, try_suffixes, i + 1)

\* get_type_and_name with try_suffixes defaulting to the usual tensor suffixes.
get_type_and_name_DefaultSuffixes(m, key, try_suffixes) ==
    LET result == MappingGet(m, key)
    IN  IF result # None THEN result
        ELSE SuffixLoop(m, key,
                        IF try_suffixes = << >> THEN <<".weight", ".bias">>
                        ELSE try_suffixes, 1)

\* lines 387-398
get_type_and_name(m, key, try_suffixes) ==
    LET result == MappingGet(m, key)
    IN  IF result # None THEN result
        ELSE SuffixLoop(m, key, try_suffixes, 1)

\* get_name returning the first component of the result.
NameOf_First(result) == IF result = None THEN None ELSE Some(result[1])

\* lines 402-404 and 410-412: what get_name and get_type return for the result
\* of get_type_and_name
NameOf(result) == IF result = None THEN None ELSE Some(result[2])

TypeOf(result) == IF result = None THEN None ELSE Some(result[1])

\* lines 400-404
get_name(m, key, try_suffixes) == NameOf(get_type_and_name(m, key, try_suffixes))

\* lines 406-412
get_type(m, key, try_suffixes) == TypeOf(get_type_and_name(m, key, try_suffixes))

\* Indexing that goes through get_name with the usual tensor suffixes.
__getitem___ThroughGetName(m, key) ==
    NameOf(get_type_and_name_DefaultSuffixes(m, key, << >>))

\* lines 414-418
__getitem__(m, key) == IF key \in DOMAIN m THEN Some(m[key][2]) ELSE KeyError(key)

\* lines 420-421
__contains__(m, key) == key \in DOMAIN m

-----------------------------------------------------------------------------
(* The quantization types and their sizes                                   *)

\* class GGUFQuantizationType(IntEnum)
GGUFQuantizationType ==
    [ F32 |-> 0,
      F16 |-> 1,
      Q4_0 |-> 2,
      Q4_1 |-> 3,
      Q5_0 |-> 6,
      Q5_1 |-> 7,
      Q8_0 |-> 8,
      Q8_1 |-> 9,
      Q2_K |-> 10,
      Q3_K |-> 11,
      Q4_K |-> 12,
      Q5_K |-> 13,
      Q6_K |-> 14,
      Q8_K |-> 15,
      IQ2_XXS |-> 16,
      IQ2_XS |-> 17,
      IQ3_XXS |-> 18,
      IQ1_S |-> 19,
      IQ4_NL |-> 20,
      IQ3_S |-> 21,
      IQ2_S |-> 22,
      IQ4_XS |-> 23,
      I8 |-> 24,
      I16 |-> 25,
      I32 |-> 26,
      I64 |-> 27,
      F64 |-> 28,
      IQ1_M |-> 29,
      BF16 |-> 30 ]

QK_K == 256

\* The size table with the Q4_0 block counted without its 2-byte scale.
GGUF_QUANT_SIZES_NoScale ==
    [ F32 |-> <<1, 4>>,
      F16 |-> <<1, 2>>,
      Q4_0 |-> <<32, 16>>,
      Q4_1 |-> <<32, 2 + 2 + 16>>,
      Q5_0 |-> <<32, 2 + 4 + 16>>,
      Q5_1 |-> <<32, 2 + 2 + 4 + 16>>,
      Q8_0 |-> <<32, 2 + 32>>,
      Q8_1 |-> <<32, 4 + 4 + 32>>,
      Q2_K |-> <<256, 2 + 2 + QK_K \div 16 + QK_K \div 4>>,
      Q3_K |-> <<256, 2 + QK_K \div 4 + QK_K \div 8 + 12>>,
      Q4_K |-> <<256, 2 + 2 + QK_K \div 2 + 12>>,
      Q5_K |-> <<256, 2 + 2 + QK_K \div 2 + QK_K \div 8 + 12>>,
      Q6_K |-> <<256, 2 + QK_K \div 2 + QK_K \div 4 + QK_K \div 16>>,
      Q8_K |-> <<256, 4 + QK_K + QK_K \div 8>>,
      IQ2_XXS |-> <<256, 2 + QK_K \div 4>>,
      IQ2_XS |-> <<256, 2 + QK_K \div 4 + QK_K \div 32>>,
      IQ3_XXS |-> <<256, 2 + QK_K \div 4 + QK_K \div 8>>,
      IQ1_S |-> <<256, 2 + QK_K \div 8 + QK_K \div 16>>,
      IQ4_NL |-> <<32, 2 + 16>>,
      IQ3_S |-> <<256, 2 + QK_K \div 4 + QK_K \div 8 + QK_K \div 32 + 4>>,
      IQ2_S |-> <<256, 2 + QK_K \div 4 + QK_K \div 16>>,
      IQ4_XS |-> <<256, 2 + 2 + QK_K \div 2 + QK_K \div 64>>,
      I8 |-> <<1, 1>>,
      I16 |-> <<1, 2>>,
      I32 |-> <<1, 4>>,
      I64 |-> <<1, 8>>,
      F64 |-> <<1, 8>>,
      IQ1_M |-> <<256, QK_K \div 8 + QK_K \div 16 + QK_K \div 32>>,
      BF16 |-> <<1, 2>> ]

\* The size table without an entry for BF16.
GGUF_QUANT_SIZES_NoBF16 ==
    [ F32 |-> <<1, 4>>,
      F16 |-> <<1, 2>>,
      Q4_0 |-> <<32, 2 + 16>>,
      Q4_1 |-> <<32, 2 + 2 + 16>>,
      Q5_0 |-> <<32, 2 + 4 + 16>>,
      Q5_1 |-> <<32, 2 + 2 + 4 + 16>>,
      Q8_0 |-> <<32, 2 + 32>>,
      Q8_1 |-> <<32, 4 + 4 + 32>>,
      Q2_K |-> <<256, 2 + 2 + QK_K \div 16 + QK_K \div 4>>,
      Q3_K |-> <<256, 2 + QK_K \div 4 + QK_K \div 8 + 12>>,
      Q4_K |-> <<256, 2 + 2 + QK_K \div 2 + 12>>,
      Q5_K |-> <<256, 2 + 2 + QK_K \div 2 + QK_K \div 8 + 12>>,
      Q6_K |-> <<256, 2 + QK_K \div 2 + QK_K \div 4 + QK_K \div 16>>,
      Q8_K |-> <<256, 4 + QK_K + QK_K \div 8>>,
      IQ2_XXS |-> <<256, 2 + QK_K \div 4>>,
      IQ2_XS |-> <<256, 2 + QK_K \div 4 + QK_K \div 32>>,
      IQ3_XXS |-> <<256, 2 + QK_K \div 4 + QK_K \div 8>>,
      IQ1_S |-> <<256, 2 + QK_K \div 8 + QK_K \div 16>>,
      IQ4_NL |-> <<32, 2 + 16>>,
      IQ3_S |-> <<256, 2 + QK_K \div 4 + QK_K \div 8 + QK_K \div 32 + 4>>,
      IQ2_S |-> <<256, 2 + QK_K \div 4 + QK_K \div 16>>,
      IQ4_XS |-> <<256, 2 + 2 + QK_K \div 2 + QK_K \div 64>>,
      I8 |-> <<1, 1>>,
      I16 |-> <<1, 2>>,
      I32 |-> <<1, 4>>,
      I64 |-> <<1, 8>>,
      F64 |-> <<1, 8>>,
      IQ1_M |-> <<256, QK_K \div 8 + QK_K \div 16 + QK_K \div 32>> ]

\* GGUF_QUANT_SIZES: (block size, type size)
GGUF_QUANT_SIZES ==
    [ F32 |-> <<1, 4>>,
      F16 |-> <<1, 2>>,
      Q4_0 |-> <<32, 2 + 16>>,
      Q4_1 |-> <<32, 2 + 2 + 16>>,
      Q5_0 |-> <<32, 2 + 4 + 16>>,
      Q5_1 |-> <<32, 2 + 2 + 4 + 16>>,
      Q8_0 |-> <<32, 2 + 32>>,
      Q8_1 |-> <<32, 4 + 4 + 32>>,
      Q2_K |-> <<256, 2 + 2 + QK_K \div 16 + QK_K \div 4>>,
      Q3_K |-> <<256, 2 + QK_K \div 4 + QK_K \div 8 + 12>>,
      Q4_K |-> <<256, 2 + 2 + QK_K \div 2 + 12>>,
      Q5_K |-> <<256, 2 + 2 + QK_K \div 2 + QK_K \div 8 + 12>>,
      Q6_K |-> <<256, 2 + QK_K \div 2 + QK_K \div 4 + QK_K \div 16>>,
      Q8_K |-> <<256, 4 + QK_K + QK_K \div 8>>,
      IQ2_XXS |-> <<256, 2 + QK_K \div 4>>,
      IQ2_XS |-> <<256, 2 + QK_K \div 4 + QK_K \div 32>>,
      IQ3_XXS |-> <<256, 2 + QK_K \div 4 + QK_K \div 8>>,
      IQ1_S |-> <<256, 2 + QK_K \div 8 + QK_K \div 16>>,
      IQ4_NL |-> <<32, 2 + 16>>,
      IQ3_S |-> <<256, 2 + QK_K \div 4 + QK_K \div 8 + QK_K \div 32 + 4>>,
      IQ2_S |-> <<256, 2 + QK_K \div 4 + QK_K \div 16>>,
      IQ4_XS |-> <<256, 2 + 2 + QK_K \div 2 + QK_K \div 64>>,
      I8 |-> <<1, 1>>,
      I16 |-> <<1, 2>>,
      I32 |-> <<1, 4>>,
      I64 |-> <<1, 8>>,
      F64 |-> <<1, 8>>,
      IQ1_M |-> <<256, QK_K \div 8 + QK_K \div 16 + QK_K \div 32>>,
      BF16 |-> <<1, 2>> ]

\* blockInfo(qtype) -> (blockSize, blockBytes)
blockInfo(qtype) ==
    IF qtype \in DOMAIN GGUF_QUANT_SIZES THEN Ok(GGUF_QUANT_SIZES[qtype])
    ELSE Fail("UnknownQuantizationType")

\* serializedBytes that rounds the element count down to whole blocks.
serializedBytes_Truncating(qtype, elementCount) ==
    LET info == blockInfo(qtype)
    IN  IF ~info.ok THEN info
        ELSE Ok((elementCount \div info.value[1]) * info.value[2])

\* serializedBytes(qtype, elementCount) -> integer
serializedBytes(qtype, elementCount) ==
    LET info == blockInfo(qtype)
    IN  IF ~info.ok THEN info
        ELSE IF elementCount % info.value[1] # 0 THEN Fail("MisalignedElementCount")
        ELSE Ok((elementCount \div info.value[1]) * info.value[2])

-----------------------------------------------------------------------------
(* The program.  block_mappings_cfg is the class attribute; tmap is a        *)
(* variable holding a TensorNameMap and ret the value the last call on it    *)
(* returned; snapshot is the mapping tmap had when its construction ended;   *)
(* other is a TensorNameMap built after tmap; frame holds, for each caller   *)
(* that shares tmap, the method it is in and how far it has got; reg is the  *)
(* last lookup in the static tables and its outcome.                         *)

VARIABLES block_mappings_cfg, tmap, ret, snapshot, other, frame, reg

vars == <<block_mappings_cfg, tmap, ret, snapshot, other, frame, reg>>

NoMap == [arch |-> "", n_blocks |-> 0, mapping |-> EmptyMapping, built |-> FALSE]
NoCall == [op |-> "", key |-> "", try_suffixes |-> << >>, result |-> None]

Callers == {"c1", "c2"}

NoReg == [op |-> "", arg |-> << >>, result |-> Ok(<< >>)]

Idle == [op |-> "", key |-> "", try_suffixes |-> << >>, pc |-> "idle", i |-> 0,
         result |-> None]

Roles(arch) == Range(GGUF_MODEL_TENSORS[arch])

\* The names a caller asks about: the text of every canonical and alias
\* template of the source tables, the block templates at the given block
\* indices, and strings no table holds.
Templates ==
    { GGUF_TENSOR_NAMES[r] : r \in DOMAIN GGUF_TENSOR_NAMES }
        \cup UNION { Range(mappings_cfg[i][2]) : i \in DOMAIN mappings_cfg }
        \cup UNION { Range(item[2]) : item \in SourceItems }
HasBid(t) == "{bid}" \in Range(t)
TopNames == { Text(t) : t \in { u \in Templates : ~HasBid(u) } }
BlockNames(bids) == { Format(t, b, 0) : t \in { u \in Templates : HasBid(u) }, b \in bids }
CanonicalBlockNames(bids) ==
    { Format(GGUF_TENSOR_NAMES[r], b, 0) :
        r \in { q \in DOMAIN GGUF_TENSOR_NAMES : HasBid(GGUF_TENSOR_NAMES[q]) }, b \in bids }
Unregistered == {"some.unrelated.parameter", "", "blk", "weight"}

\* The top-level names that are asked about with the unusual suffixes: the
\* canonical ones and an alias.
Probes ==
    { Text(GGUF_TENSOR_NAMES[r]) :
        r \in { q \in DOMAIN GGUF_TENSOR_NAMES : ~HasBid(GGUF_TENSOR_NAMES[q]) } }
        \cup {"lm_head"}

\* The calls made on a TensorNameMap of n blocks: (key, try_suffixes).  The
\* block names are those of the first block and of the last one, and the
\* canonical ones of the block after the last.
Calls ==
    [ n \in BlockCounts |->
        { <<k, << >> >> :
            k \in TopNames \cup BlockNames({ b \in {0, n - 1} : b >= 0 })
                    \cup CanonicalBlockNames({n}) \cup Unregistered }
            \cup { <<k \o ".weight", <<".weight">> >> :
                     k \in TopNames \cup BlockNames({ b \in {n - 1} : b >= 0 })
                             \cup Unregistered }
            \cup { <<k \o ".weight", << >> >> : k \in TopNames \cup CanonicalBlockNames({0}) }
            \cup { <<k \o s, <<s>> >> : k \in Probes, s \in {"", ".linear", "_norm"} }
            \cup { <<k \o ".biases", l>> :
                     k \in Probes, l \in { <<".weight">>, <<".bias", ".weight">> } }
            \cup { <<k, l>> : k \in Unregistered, l \in { <<"">>, <<".bias", ".weight">> } }
            \cup { <<k \o "_norm.weight", l>> :
                     k \in {"output", "lm_head", "token_embd", "blk.0.attn", "model"},
                     l \in { <<".weight", "_norm.weight">>,
                             <<"_norm.weight", ".weight">>,
                             <<"m.weight", ".weight">> } } ]

Init ==
    /\ block_mappings_cfg = block_mappings_cfg_src
    /\ tmap = NoMap
    /\ ret = NoCall
    /\ snapshot = EmptyMapping
    /\ other = NoMap
    /\ frame = [ c \in Callers |-> Idle ]
    /\ reg = NoReg

\* tmap = TensorNameMap(arch, n_blocks)
Build(arch, n_blocks) ==
    /\ ret = NoCall
    /\ tmap' = [arch |-> arch, n_blocks |-> n_blocks,
                mapping |-> TensorNameMap(arch, n_blocks, block_mappings_cfg),
                built |-> TRUE]
    /\ snapshot' = tmap'.mapping
    /\ block_mappings_cfg' = MergedCfg(block_mappings_cfg, arch)
    /\ ret' = NoCall
    /\ UNCHANGED <<other, frame, reg>>

\* tmap.get_type_and_name(key, try_suffixes)
Resolve ==
    /\ ret = NoCall
    /\ tmap.built
    /\ \E c \in Calls[tmap.n_blocks] :
           LET key == c[1]
               try_suffixes == c[2]
           IN  ret' = [op |-> "get_type_and_name", key |-> key,
                       try_suffixes |-> try_suffixes,
                       result |-> get_type_and_name(tmap.mapping, key, try_suffixes)]
    /\ UNCHANGED <<block_mappings_cfg, tmap, snapshot, other, frame, reg>>

\* The caller takes the returned value and goes on.
Continue ==
    /\ ret # NoCall
    /\ ret' = NoCall
    /\ UNCHANGED <<block_mappings_cfg, tmap, snapshot, other, frame, reg>>

Next ==
    \/ \E arch \in Range(GGUF_MODEL_ARCH), n_blocks \in BlockCounts : Build(arch, n_blocks)
    \/ Resolve
    \/ Continue

Spec == Init /\ [][Next]_vars

-----------------------------------------------------------------------------
(* TensorNameMaps of more blocks, for the architectures of the scenarios    *)

ScenarioBlocks == 4

ScenarioArchs == {"MAMBA", "ARCTIC"}

\* The calls made on a TensorNameMap of n blocks: (key, try_suffixes).
ScenarioCalls(n) ==
    { <<k, << >> >> : k \in BlockNames(0 .. n) }
        \cup { <<k \o ".weight", <<".weight">> >> : k \in BlockNames({n - 1}) }

\* tmap.get_type_and_name(key, try_suffixes)
ResolveScenario ==
    /\ ret = NoCall
    /\ tmap.built
    /\ \E c \in ScenarioCalls(tmap.n_blocks) :
           ret' = [op |-> "get_type_and_name", key |-> c[1], try_suffixes |-> c[2],
                   result |-> get_type_and_name(tmap.mapping, c[1], c[2])]
    /\ UNCHANGED <<block_mappings_cfg, tmap, snapshot, other, frame, reg>>

NextScenario ==
    \/ \E arch \in ScenarioArchs, n_blocks \in ScenarioBlocks - 1 .. ScenarioBlocks :
           Build(arch, n_blocks)
    \/ ResolveScenario
    \/ Continue

SpecScenario == Init /\ [][NextScenario]_vars

-----------------------------------------------------------------------------
(* One TensorNameMap shared by several callers.  tmap is built once; after   *)
(* that the callers run its methods a statement at a time, in any            *)
(* interleaving, while other TensorNameMaps are built.                       *)

SharedArchs == {"LLAMA", "ARCTIC"}

Methods == {"get_type_and_name", "get_name", "get_type", "__getitem__", "__contains__"}

SharedCalls ==
    { <<"blk.0.attn_q", << >> >>,
      <<"output.weight", <<".bias">> >>,
      <<"model.layers.0.post_attention_layernorm.weight", <<".bias", ".weight">> >> }

\* The shared TensorNameMap is constructed.
Construct(arch) ==
    /\ ~tmap.built
    /\ Build(arch, MaxBlocks)

\* other = TensorNameMap(arch, n_blocks)
BuildOther(arch, n_blocks) ==
    /\ tmap.built
    /\ other' = [arch |-> arch, n_blocks |-> n_blocks,
                 mapping |-> TensorNameMap(arch, n_blocks, block_mappings_cfg),
                 built |-> TRUE]
    /\ block_mappings_cfg' = MergedCfg(block_mappings_cfg, arch)
    /\ UNCHANGED <<tmap, ret, snapshot, frame, reg>>

\* A caller enters a method of tmap.
Call(c, op, key, try_suffixes) ==
    /\ tmap.built
    /\ frame[c].pc = "idle"
    /\ frame' = [frame EXCEPT ![c] = [op |-> op, key |-> key,
                                      try_suffixes |-> try_suffixes,
                                      pc |-> "get", i |-> 1, result |-> None]]
    /\ UNCHANGED <<block_mappings_cfg, tmap, ret, snapshot, other, reg>>

\* What the method returns for the value get_type_and_name returns.
Returned(op, result) ==
    IF op = "get_name" THEN NameOf(result)
    ELSE IF op = "get_type" THEN TypeOf(result)
    ELSE result

\* The caller's first read of self.mapping: line 390, 416 or 421.
Get(c) ==
    LET f == frame[c]
        result == MappingGet(tmap.mapping, f.key)
    IN  /\ f.pc = "get"
        /\ frame' =
             [frame EXCEPT ![c] =
                IF f.op = "__contains__"
                THEN [f EXCEPT !.pc = "ret", !.result = __contains__(tmap.mapping, f.key)]
                ELSE IF f.op = "__getitem__"
                THEN [f EXCEPT !.pc = "ret", !.result = __getitem__(tmap.mapping, f.key)]
                ELSE IF result # None
                THEN [f EXCEPT !.pc = "ret", !.result = Returned(f.op, result)]
                ELSE [f EXCEPT !.pc = "suffix"]]
        /\ UNCHANGED <<block_mappings_cfg, tmap, ret, snapshot, other, reg>>

\* An iteration that also stores what it found under the key it was asked.
TrySuffix_Memo(c) ==
    LET f == frame[c]
        result == IF f.i > Len(f.try_suffixes) THEN None
                  ELSE SuffixStep(tmap.mapping, f.key, f.try_suffixes[f.i])
    IN  /\ f.pc = "suffix"
        /\ frame' =
             [frame EXCEPT ![c] =
                IF f.i > Len(f.try_suffixes) \/ result # None
                THEN [f EXCEPT !.pc = "ret", !.result = Returned(f.op, result)]
                ELSE [f EXCEPT !.i = f.i + 1]]
        /\ tmap' = IF result # None
                   THEN [tmap EXCEPT !.mapping = (f.key :> result) @@ @]
                   ELSE tmap
        /\ UNCHANGED <<block_mappings_cfg, ret, snapshot, other, reg>>

\* lines 393-398: one iteration of the caller's loop over try_suffixes, or the
\* return None that follows the loop.
TrySuffix(c) ==
    LET f == frame[c]
        result == IF f.i > Len(f.try_suffixes) THEN None
                  ELSE SuffixStep(tmap.mapping, f.key, f.try_suffixes[f.i])
    IN  /\ f.pc = "suffix"
        /\ frame' =
             [frame EXCEPT ![c] =
                IF f.i > Len(f.try_suffixes) \/ result # None
                THEN [f EXCEPT !.pc = "ret", !.result = Returned(f.op, result)]
                ELSE [f EXCEPT !.i = f.i + 1]]
        /\ UNCHANGED <<block_mappings_cfg, tmap, ret, snapshot, other, reg>>

\* The caller takes the returned value and leaves the method.
Return(c) ==
    /\ frame[c].pc = "ret"
    /\ frame' = [frame EXCEPT ![c] = Idle]
    /\ UNCHANGED <<block_mappings_cfg, tmap, ret, snapshot, other, reg>>

NextShared ==
    \/ \E arch \in SharedArchs : Construct(arch)
    \/ \E arch \in SharedArchs, n_blocks \in 0 .. 1 : BuildOther(arch, n_blocks)
    \/ \E c \in Callers, op \in Methods, call \in SharedCalls :
           Call(c, op, call[1], call[2])
    \/ \E c \in Callers : Get(c)
    \/ \E c \in Callers : TrySuffix(c)
    \/ \E c \in Callers : Return(c)

SpecShared == Init /\ [][NextShared]_vars

-----------------------------------------------------------------------------
(* Lookups in the static tables, and constructions that may fail            *)

\* The architectures asked about: the members of GGUF_MODEL_ARCH and names
\* that are none.
RegistryArchs == Range(GGUF_MODEL_ARCH) \cup {"UNKNOWN_ARCH", ""}

\* The roles that the role sets, the alias tables and the override table name.
UsedRoles ==
    UNION { Range(GGUF_MODEL_TENSORS[a]) : a \in DOMAIN GGUF_MODEL_TENSORS }
        \cup DictKeys(mappings_cfg)
        \cup DictKeys(block_mappings_cfg_src)
        \cup UNION { DictKeys(arch_block_mappings_cfg[a]) :
                       a \in DOMAIN arch_block_mappings_cfg }

RolesFor(arch) ==
    /\ reg.op = ""
    /\ reg' = [op |-> "rolesFor", arg |-> <<arch>>, result |-> rolesFor(arch)]
    /\ UNCHANGED <<block_mappings_cfg, tmap, ret, snapshot, other, frame>>

CanonicalTemplate(tensor) ==
    /\ reg.op = ""
    /\ reg' = [op |-> "canonicalTemplate", arg |-> <<tensor>>,
               result |-> canonicalTemplate(tensor)]
    /\ UNCHANGED <<block_mappings_cfg, tmap, ret, snapshot, other, frame>>

SkipSetFor(arch) ==
    /\ reg.op = ""
    /\ reg' = [op |-> "skipSetFor", arg |-> <<arch>>, result |-> skipSetFor(arch)]
    /\ UNCHANGED <<block_mappings_cfg, tmap, ret, snapshot, other, frame>>

\* tmap = TensorNameMap(arch, n_blocks), for any arch: when __init__ raises,
\* no object comes back and tmap keeps its value; the class attribute is
\* updated if the loop over mappings_cfg was passed.
TryBuild(arch, n_blocks) ==
    LET error == InitError(arch, n_blocks, block_mappings_cfg)
    IN  /\ reg.op = ""
        /\ ret = NoCall
        /\ IF error # ""
           THEN /\ reg' = [op |-> "TensorNameMap", arg |-> <<arch, n_blocks>>,
                           result |-> Fail("KeyError")]
                /\ block_mappings_cfg' = IF error = "top" THEN block_mappings_cfg
                                         ELSE MergedCfg(block_mappings_cfg, arch)
                /\ UNCHANGED <<tmap, snapshot>>
           ELSE /\ reg' = [op |-> "TensorNameMap", arg |-> <<arch, n_blocks>>,
                           result |-> Ok(arch)]
                /\ tmap' = [arch |-> arch, n_blocks |-> n_blocks,
                            mapping |-> TensorNameMap(arch, n_blocks, block_mappings_cfg),
                            built |-> TRUE]
                /\ snapshot' = tmap'.mapping
                /\ block_mappings_cfg' = MergedCfg(block_mappings_cfg, arch)
        /\ UNCHANGED <<ret, other, frame>>

-----------------------------------------------------------------------------
(* Lookups of quantization sizes                                            *)

\* The tags looked up: the members of the enumeration and tags that are not.
QuantTags == DOMAIN GGUFQuantizationType \cup {"Q4_2", "Q4_3", "UNKNOWN"}

\* The largest element count a size is asked for.
MaxElements == 520

\* The caller asks for the block size and block bytes of a tag.
BlockInfo(qtype) ==
    /\ reg.op = ""
    /\ reg' = [op |-> "blockInfo", arg |-> <<qtype>>, result |-> blockInfo(qtype)]
    /\ UNCHANGED <<block_mappings_cfg, tmap, ret, snapshot, other, frame>>

\* The caller asks for the serialized size of elementCount elements.
SerializedBytes(qtype, elementCount) ==
    /\ reg.op = ""
    /\ reg' = [op |-> "serializedBytes", arg |-> <<qtype, elementCount>>,
               result |-> serializedBytes(qtype, elementCount)]
    /\ UNCHANGED <<block_mappings_cfg, tmap, ret, snapshot, other, frame>>

\* The caller takes the outcome of the lookup and goes on.
RegContinue ==
    /\ reg.op # ""
    /\ reg' = NoReg
    /\ UNCHANGED <<block_mappings_cfg, tmap, ret, snapshot, other, frame>>

NextQuant ==
    \/ \E qtype \in QuantTags : BlockInfo(qtype)
    \/ \E qtype \in QuantTags, elementCount \in 0 .. MaxElements :
           SerializedBytes(qtype, elementCount)
    \/ RegContinue

SpecQuant == Init /\ [][NextQuant]_vars

NextRegistry ==
    \/ \E arch \in RegistryArchs : RolesFor(arch)
    \/ \E tensor \in UsedRoles \cup Range(GGUF_MODEL_TENSOR) \cup {"UNKNOWN_ROLE"} :
           CanonicalTemplate(tensor)
    \/ \E arch \in RegistryArchs : SkipSetFor(arch)
    \/ \E arch \in RegistryArchs, n_blocks \in {0, MaxBlocks} : TryBuild(arch, n_blocks)
    \/ RegContinue

SpecRegistry == Init /\ [][NextRegistry]_vars

-----------------------------------------------------------------------------
(* The vocabulary of the properties                                         *)

RoleSet(arch) == Roles(arch)

IsBlockRole(role) == HasBid(GGUF_TENSOR_NAMES[role])

\* The concrete canonical name of a role at a block index.
CanonicalName(role, bid) == Format(GGUF_TENSOR_NAMES[role], bid, 0)

\* The block indices a role has names at in a TensorNameMap of n blocks (a
\* top-level role has one name and no index).
ValidBids(role, n) == IF IsBlockRole(role) THEN 0 .. n - 1 ELSE {0}

\* The alias templates the class body registers for a role: in mappings_cfg,
\* and in block_mappings_cfg or, for a role the architecture overrides, in
\* arch_block_mappings_cfg.
TopAliases(role) ==
    IF role \in DictKeys(mappings_cfg) THEN Range(DictGet(mappings_cfg, role)) ELSE {}

\* The roles an architecture overrides, and the aliases of a role in the
\* global block table.
Overridden(arch) ==
    IF arch \in DOMAIN arch_block_mappings_cfg
    THEN DictKeys(arch_block_mappings_cfg[arch])
    ELSE {}

GlobalAliases(role) ==
    IF role \in DictKeys(block_mappings_cfg_src)
    THEN Range(DictGet(block_mappings_cfg_src, role))
    ELSE {}

\* The override of a role replaces its global aliases.
BlockAliases(arch, role) ==
    IF role \in Overridden(arch)
    THEN Range(DictGet(arch_block_mappings_cfg[arch], role))
    ELSE GlobalAliases(role)

\* The canonical names of the roles of an architecture in a TensorNameMap of
\* n blocks, as (role, block index, name), and the names of their aliases with
\* {bid}, tabulated.
CanonicalNames ==
    [ arch \in Range(GGUF_MODEL_ARCH), n \in BlockCounts |->
        UNION { { <<role, bid, CanonicalName(role, bid)>> : bid \in ValidBids(role, n) } :
                  role \in RoleSet(arch) } ]

BlockAliasNames ==
    [ arch \in Range(GGUF_MODEL_ARCH), n \in BlockCounts |->
        UNION { { <<role, b, Format(t, b, 0)>> :
                    t \in { u \in BlockAliases(arch, role) : HasBid(u) }, b \in 0 .. n - 1 } :
                  role \in RoleSet(arch) } ]

\* key = base + suffix, and that base.
IsSuffixed(key, suffix) ==
    /\ Len(suffix) <= Len(key)
    /\ SubSeq(key, Len(key) - Len(suffix) + 1, Len(key)) = suffix

BaseOf(key, suffix) == SubSeq(key, 1, Len(key) - Len(suffix))

Resolved == ret.op = "get_type_and_name"

-----------------------------------------------------------------------------
(* The properties                                                           *)

\* C1 (identity): on a TensorNameMap built for (arch, n_blocks), resolving the
\* canonical name of a role of the architecture, at any block index below
\* n_blocks, returns that role and that same name.
C1_Identity ==
    Resolved =>
        \A c \in CanonicalNames[tmap.arch, tmap.n_blocks] :
            ret.key = c[3] => ret.result = <<c[1], ret.key>>

C1_Witness ==
    /\ Resolved
    /\ tmap.arch = "MAMBA" /\ tmap.n_blocks = 2
    /\ block_mappings_cfg # block_mappings_cfg_src
    /\ ret.key = "blk.1.ssm_a"
    /\ ret.result = <<"SSM_A", "blk.1.ssm_a">>

\* C2 (alias coverage): resolving an alias the class body registers for a role
\* of the architecture, at a block index below n_blocks, returns that role
\* and its canonical name at the same index.
C2_AliasCoverage ==
    Resolved =>
        \A role \in RoleSet(tmap.arch) :
            /\ \A t \in TopAliases(role) :
                   ret.key = Text(t) => ret.result = <<role, CanonicalName(role, 0)>>
            /\ \A t \in BlockAliases(tmap.arch, role) : \A bid \in 0 .. tmap.n_blocks - 1 :
                   ret.key = Format(t, bid, 0) =>
                       ret.result = <<role, CanonicalName(role, bid)>>

\* C3 (role confinement): get_type_and_name returns only roles of the
\* architecture, and the mapping a build leaves holds only such roles.
C3_RoleConfinement ==
    /\ (Resolved /\ ret.result # None) => ret.result[1] \in RoleSet(tmap.arch)
    /\ (tmap.built /\ ret = NoCall) =>
           \A k \in DOMAIN tmap.mapping : tmap.mapping[k][1] \in RoleSet(tmap.arch)

C3_Witness ==
    /\ Resolved
    /\ tmap.arch = "MAMBA" /\ tmap.n_blocks = 1
    /\ ret.key = "backbone.layers.0.mixer.A_log.weight"
    /\ ret.result = <<"SSM_A", "blk.0.ssm_a.weight">>
    /\ "blk.0.attn_q" \notin DOMAIN tmap.mapping

\* C4 (the registry is read-only): the class-level block alias table keeps the
\* value the class body gives it.  (The other tables are never assigned.)
C4_RegistryReadOnly == block_mappings_cfg = block_mappings_cfg_src

\* C5 (build is history-independent): the mapping a build of (arch, n_blocks)
\* leaves is the one it leaves when nothing was built before it.
C5_BuildDeterministic ==
    (tmap.built /\ ret = NoCall) =>
        tmap.mapping = TensorNameMap(tmap.arch, tmap.n_blocks, block_mappings_cfg_src)

\* C6 (not found is a value): a key that is not registered, and whose remainder
\* is not registered for any suffix of the list it ends with, resolves to
\* None; get_type_and_name returns None or a (role, name) pair, never an error.
C6_NotFoundIsValue ==
    Resolved =>
        /\ ( /\ ret.key \notin DOMAIN tmap.mapping
             /\ \A i \in DOMAIN ret.try_suffixes :
                    ~ ( /\ IsSuffixed(ret.key, ret.try_suffixes[i])
                        /\ BaseOf(ret.key, ret.try_suffixes[i]) \in DOMAIN tmap.mapping ) )
               => ret.result = None
        /\ ret.key = "some.unrelated.parameter" => ret.result = None
        /\ ret.result # None => ret.result[1] \in Range(GGUF_MODEL_TENSOR)

C6_Witness ==
    /\ Resolved
    /\ tmap.arch = "LLAMA" /\ tmap.n_blocks = 2
    /\ ret.key = "some.unrelated.parameter.weight"
    /\ ret.try_suffixes = <<".weight">>
    /\ ret.result = None

\* C7 as stated (suffix fallback): for a registered base and any suffix s,
\* resolving base + s with try_suffixes = [s] returns the role of base and its
\* canonical name + s.
C7_SuffixFallbackAnySuffix ==
    (Resolved /\ Len(ret.try_suffixes) = 1) =>
        LET s == ret.try_suffixes[1]
            base == BaseOf(ret.key, s)
        IN  (IsSuffixed(ret.key, s) /\ base \in DOMAIN tmap.mapping) =>
                ret.result = <<tmap.mapping[base][1], tmap.mapping[base][2] \o s>>

\* C7 as amended: the same, for the suffixes s such that base + s is not
\* itself a registered name (a registered name resolves to its own entry).
C7_SuffixFallback ==
    (Resolved /\ Len(ret.try_suffixes) = 1) =>
        LET s == ret.try_suffixes[1]
            base == BaseOf(ret.key, s)
        IN  ( /\ IsSuffixed(ret.key, s)
              /\ base \in DOMAIN tmap.mapping
              /\ ret.key \notin DOMAIN tmap.mapping ) =>
                ret.result = <<tmap.mapping[base][1], tmap.mapping[base][2] \o s>>

C7_Witness ==
    /\ Resolved
    /\ tmap.arch = "LLAMA" /\ tmap.n_blocks = 2
    /\ ret.key = "model.layers.1.self_attn.q_proj.weight"
    /\ ret.try_suffixes = <<".weight">>
    /\ ret.result = <<"ATTN_Q", "blk.1.attn_q.weight">>

\* C8 (no suffix, no fallback): with an empty suffix list a key that is not
\* registered resolves to None, and a key that is not registered resolves
\* only through a suffix of the list that it ends with.
C8_NoSuffixNoFallback ==
    (Resolved /\ ret.key \notin DOMAIN tmap.mapping) =>
        /\ ret.try_suffixes = << >> => ret.result = None
        /\ ret.result # None =>
               \E i \in DOMAIN ret.try_suffixes :
                   LET s == ret.try_suffixes[i]
                       base == BaseOf(ret.key, s)
                   IN  /\ IsSuffixed(ret.key, s)
                       /\ base \in DOMAIN tmap.mapping
                       /\ ret.result = <<tmap.mapping[base][1], tmap.mapping[base][2] \o s>>

C8_Witness ==
    /\ Resolved
    /\ tmap.arch = "LLAMA"
    /\ "token_embd" \in DOMAIN tmap.mapping
    /\ ret.key = "token_embd.weight"
    /\ ret.try_suffixes = << >>
    /\ ret.result = None

\* C9 as stated (override precedence): on a TensorNameMap of an architecture
\* that overrides the block aliases of a role, every alias of that role in
\* the global block table, at a block index below n_blocks, is not found.
C9_GlobalAliasNotFound ==
    Resolved =>
        \A role \in Overridden(tmap.arch) : \A t \in GlobalAliases(role) :
            \A bid \in 0 .. tmap.n_blocks - 1 :
                ret.key = Format(t, bid, 0) => ret.result = None

\* C9 as amended: such an alias, unless the override lists it again, never
\* resolves to the overridden role: it is not found, or it resolves to the
\* other role of the architecture whose merged alias list holds the template.
C9_OverridePrecedence ==
    Resolved =>
        \A role \in Overridden(tmap.arch) :
            \A t \in GlobalAliases(role) \ BlockAliases(tmap.arch, role) :
                \A bid \in 0 .. tmap.n_blocks - 1 :
                    ret.key = Format(t, bid, 0) =>
                        LET others == { q \in RoleSet(tmap.arch) \ {role} :
                                          t \in BlockAliases(tmap.arch, q) }
                        IN  IF others = {} THEN ret.result = None
                            ELSE \E q \in others :
                                     ret.result = <<q, CanonicalName(q, bid)>>

C9_Witness ==
    /\ Resolved
    /\ tmap.arch = "ARCTIC" /\ tmap.n_blocks = 2
    /\ ret.key = "model.layers.1.ffn_norm"
    /\ ret.try_suffixes = << >>
    /\ ret.result = None

\* What a call returns when it runs alone on a mapping.
CallAlone(m, op, key, try_suffixes) ==
    IF op = "get_type_and_name" THEN get_type_and_name(m, key, try_suffixes)
    ELSE IF op = "get_name" THEN get_name(m, key, try_suffixes)
    ELSE IF op = "get_type" THEN get_type(m, key, try_suffixes)
    ELSE IF op = "__getitem__" THEN __getitem__(m, key)
    ELSE __contains__(m, key)

\* C10 (immutable and safe to share): whatever the interleaving of the
\* callers' get_type_and_name, get_name, get_type, __getitem__ and
\* __contains__ calls on a shared TensorNameMap, and whatever is built after
\* it, its mapping stays the one its construction left, and every call
\* returns what the same call returns alone right after the construction.
C10_ImmutableShared ==
    /\ tmap.built => tmap.mapping = snapshot
    /\ \A c \in Callers :
           frame[c].pc = "ret" =>
               frame[c].result =
                   CallAlone(snapshot, frame[c].op, frame[c].key, frame[c].try_suffixes)

C10_Witness ==
    /\ tmap.built /\ tmap.arch = "LLAMA"
    /\ other.built /\ other.arch = "ARCTIC"
    /\ block_mappings_cfg # block_mappings_cfg_src
    /\ frame["c1"].pc = "ret" /\ frame["c1"].op = "get_name"
    /\ frame["c1"].result = Some("blk.0.ffn_norm.weight")
    /\ frame["c2"].pc = "suffix" /\ frame["c2"].i = 2

-----------------------------------------------------------------------------
(* The grammar of canonical names                                           *)

\* name is blk.<b>.<role_suffix>
IsBlockName(name, b) ==
    LET prefix == "blk." \o ToString(b) \o "."
    IN  /\ Len(name) > Len(prefix)
        /\ SubSeq(name, 1, Len(prefix)) = prefix

\* name is a bare role name: it has no index and no dotted part.
IsBareName(name) ==
    /\ Len(name) > 0
    /\ \A i \in 1 .. Len(name) :
           SubSeq(name, i, i) \notin
               {".", "0", "1", "2", "3", "4", "5", "6", "7", "8", "9", "{", "}"}

-----------------------------------------------------------------------------
(* Quantization sizes                                                       *)

\* C12 (serializedBytes): for a quantization type of the enumeration and an
\* element count n, the call returns (n / blockSize) * blockBytes if n is a
\* multiple of blockSize, and fails with MisalignedElementCount if it is not.
C12_SerializedBytes ==
    (reg.op = "serializedBytes" /\ reg.arg[1] \in DOMAIN GGUFQuantizationType) =>
        LET blockSize == GGUF_QUANT_SIZES[reg.arg[1]][1]
            blockBytes == GGUF_QUANT_SIZES[reg.arg[1]][2]
            n == reg.arg[2]
        IN  IF \E k \in 0 .. n : n = k * blockSize
            THEN /\ reg.result.ok
                 /\ \E k \in 0 .. n : n = k * blockSize /\ reg.result.value = k * blockBytes
            ELSE /\ ~reg.result.ok
                 /\ reg.result.error = "MisalignedElementCount"

C12_Witness ==
    /\ reg.op = "serializedBytes"
    /\ reg.arg = <<"Q6_K", 257>>
    /\ reg.result = Fail("MisalignedElementCount")

\* C13 (quantization size law): Q4_0 has block size 32 and block bytes 18,
\* Q8_0 block size 32 and block bytes 34; serializedBytes(Q4_0, 32) = 18,
\* serializedBytes(Q8_0, 64) = 68 and serializedBytes(Q4_0, 33) fails with
\* MisalignedElementCount.
C13_QuantSizeLaw ==
    /\ (reg.op = "blockInfo" /\ reg.arg = <<"Q4_0">>) => reg.result = Ok(<<32, 18>>)
    /\ (reg.op = "blockInfo" /\ reg.arg = <<"Q8_0">>) => reg.result = Ok(<<32, 34>>)
    /\ (reg.op = "serializedBytes" /\ reg.arg = <<"Q4_0", 32>>) => reg.result = Ok(18)
    /\ (reg.op = "serializedBytes" /\ reg.arg = <<"Q8_0", 64>>) => reg.result = Ok(68)
    /\ (reg.op = "serializedBytes" /\ reg.arg = <<"Q4_0", 33>>) =>
           reg.result = Fail("MisalignedElementCount")

C13_Witness ==
    /\ reg.op = "serializedBytes"
    /\ reg.arg = <<"Q8_0", 64>>
    /\ reg.result = Ok(68)

\* C14 (blockInfo is total and well-formed): every member of
\* GGUFQuantizationType has an entry of the size table, a pair of positive
\* integers, and blockInfo returns it; a tag with no entry fails with
\* UnknownQuantizationType.
C14_BlockInfoTotal ==
    reg.op = "blockInfo" =>
        LET qtype == reg.arg[1]
        IN  /\ qtype \in DOMAIN GGUFQuantizationType =>
                /\ qtype \in DOMAIN GGUF_QUANT_SIZES
                /\ reg.result.ok
                /\ reg.result.value = GGUF_QUANT_SIZES[qtype]
                /\ Len(reg.result.value) = 2
                /\ reg.result.value[1] \in Nat \ {0}
                /\ reg.result.value[2] \in Nat \ {0}
            /\ qtype \notin DOMAIN GGUF_QUANT_SIZES =>
                /\ ~reg.result.ok
                /\ reg.result.error = "UnknownQuantizationType"

C14_Witness ==
    /\ reg.op = "blockInfo"
    /\ reg.arg = <<"Q4_2">>
    /\ reg.result = Fail("UnknownQuantizationType")

-----------------------------------------------------------------------------
(* The static tables                                                        *)

\* C15 (unknown architecture fails fast): rolesFor and the construction of a
\* TensorNameMap fail with KeyError for an architecture without role set and
\* leave no TensorNameMap, empty or partial; every member of GGUF_MODEL_ARCH
\* has a role set and its construction succeeds.
C15_UnknownArchFailsFast ==
    /\ tmap.built => tmap.arch \in DOMAIN GGUF_MODEL_TENSORS
    /\ reg.op = "rolesFor" =>
           IF reg.arg[1] \in DOMAIN GGUF_MODEL_TENSORS
           THEN reg.result.ok /\ reg.result.value = GGUF_MODEL_TENSORS[reg.arg[1]]
           ELSE ~reg.result.ok /\ reg.result.error = "KeyError"
    /\ reg.op = "TensorNameMap" =>
           IF reg.arg[1] \in DOMAIN GGUF_MODEL_TENSORS
           THEN /\ reg.result.ok
                /\ tmap.built /\ tmap.arch = reg.arg[1] /\ tmap.n_blocks = reg.arg[2]
           ELSE /\ ~reg.result.ok /\ reg.result.error = "KeyError"
                /\ tmap.built => tmap.arch # reg.arg[1]
    /\ (reg.op \in {"rolesFor", "TensorNameMap"} /\ reg.arg[1] \in Range(GGUF_MODEL_ARCH)) =>
           reg.result.ok

C15_Witness ==
    /\ reg.op = "TensorNameMap"
    /\ reg.arg = <<"UNKNOWN_ARCH", MaxBlocks>>
    /\ reg.result = Fail("KeyError")
    /\ tmap.built /\ tmap.arch = "LLAMA"

\* C16 (registry completeness): every role named by a role set, by the
\* top-level alias table, by the block alias table or by the override table
\* has a canonical name, and no construction for a member of GGUF_MODEL_ARCH
\* fails.
C16_RegistryComplete ==
    /\ (reg.op = "canonicalTemplate" /\ reg.arg[1] \in UsedRoles) => reg.result.ok
    /\ (reg.op = "TensorNameMap" /\ reg.arg[1] \in Range(GGUF_MODEL_ARCH)) => reg.result.ok

C16_Witness ==
    /\ reg.op = "canonicalTemplate"
    /\ reg.arg = <<"FFN_NORM_EXP">>
    /\ reg.result.ok
    /\ reg.result.value = <<"blk.", "{bid}", ".ffn_norm_exps">>

\* C17 (skipSetFor): for a member of GGUF_MODEL_ARCH without entry in
\* GGUF_MODEL_TENSOR_SKIP the skip set is the empty set, not an error.
C17_SkipSetEmpty ==
    ( /\ reg.op = "skipSetFor"
      /\ reg.arg[1] \in Range(GGUF_MODEL_ARCH)
      /\ reg.arg[1] \notin DOMAIN GGUF_MODEL_TENSOR_SKIP ) =>
        reg.result.ok /\ reg.result.value = {}

C17_Witness ==
    /\ reg.op = "skipSetFor"
    /\ reg.arg = <<"MAMBA">>
    /\ reg.result.ok
    /\ reg.result.value = {}

-----------------------------------------------------------------------------
(* Scenarios and the order of the lookup                                    *)

\* C18 (scenario 1): on a TensorNameMap built for LLAMA with 2 blocks,
\* "model.layers.0.self_attn.q_proj" resolves to (ATTN_Q, "blk.0.attn_q") and
\* "model.layers.1.mlp.down_proj" to (FFN_DOWN, "blk.1.ffn_down").
C18_ScenarioLlama ==
    (Resolved /\ tmap.arch = "LLAMA" /\ tmap.n_blocks = 2) =>
        /\ ret.key = "model.layers.0.self_attn.q_proj" =>
               ret.result = <<"ATTN_Q", "blk.0.attn_q">>
        /\ ret.key = "model.layers.1.mlp.down_proj" =>
               ret.result = <<"FFN_DOWN", "blk.1.ffn_down">>

C18_Witness ==
    /\ Resolved
    /\ tmap.arch = "LLAMA" /\ tmap.n_blocks = 2
    /\ ret.key = "model.layers.1.mlp.down_proj"
    /\ ret.try_suffixes = << >>
    /\ ret.result = <<"FFN_DOWN", "blk.1.ffn_down">>

\* The indices of the suffixes of the list that the key ends with and whose
\* stripped remainder is registered.
SuffixHits ==
    { i \in DOMAIN ret.try_suffixes :
        /\ IsSuffixed(ret.key, ret.try_suffixes[i])
        /\ BaseOf(ret.key, ret.try_suffixes[i]) \in DOMAIN tmap.mapping }

\* C20 (lookup precedence): a registered key resolves to its own entry, with
\* no suffix appended, whatever the suffix list; any other key resolves through
\* the first suffix of the list that it ends with and whose stripped remainder
\* is registered, a suffix whose remainder is not registered being passed
\* over, and to None when there is no such suffix.
C20_LookupPrecedence ==
    Resolved =>
        IF ret.key \in DOMAIN tmap.mapping THEN ret.result = tmap.mapping[ret.key]
        ELSE IF SuffixHits = {} THEN ret.result = None
        ELSE LET i == CHOOSE j \in SuffixHits : \A k \in SuffixHits : j <= k
                 s == ret.try_suffixes[i]
                 base == BaseOf(ret.key, s)
             IN  ret.result = <<tmap.mapping[base][1], tmap.mapping[base][2] \o s>>

C20_Witness ==
    /\ Resolved
    /\ tmap.arch = "LLAMA"
    /\ ret.key = "output_norm.weight"
    /\ ret.try_suffixes = <<"m.weight", ".weight">>
    /\ ret.result = <<"OUTPUT_NORM", "output_norm.weight">>

\* C19 (scenario 2): on a TensorNameMap built for MAMBA with 4 blocks,
\* "backbone.layers.3.mixer.A_log" resolves to (SSM_A, "blk.3.ssm_a").
C19_ScenarioMamba ==
    ( /\ Resolved
      /\ tmap.arch = "MAMBA" /\ tmap.n_blocks = 4
      /\ ret.key = "backbone.layers.3.mixer.A_log" ) =>
        ret.result = <<"SSM_A", "blk.3.ssm_a">>

C19_Witness ==
    /\ Resolved
    /\ tmap.arch = "MAMBA" /\ tmap.n_blocks = 4
    /\ ret.key = "backbone.layers.3.mixer.A_log"
    /\ ret.try_suffixes = << >>
    /\ ret.result = <<"SSM_A", "blk.3.ssm_a">>

-----------------------------------------------------------------------------
(* The overrides, the block indices and the order of the registrations      *)

\* The names a role is registered under in a TensorNameMap of n blocks when
\* its aliases are those of the global tables: its canonical name, its
\* top-level aliases and its global block aliases at the indices below n.
GlobalNamesOf(role, n) ==
    { CanonicalName(role, bid) : bid \in ValidBids(role, n) }
        \cup { Text(t) : t \in TopAliases(role) }
        \cup { Format(t, bid, 0) : t \in GlobalAliases(role), bid \in 0 .. n - 1 }

\* C21 (override merge for ARCTIC): on a TensorNameMap built for ARCTIC with n
\* blocks, at every bid below n "model.layers.<bid>.residual_layernorm"
\* resolves to (FFN_NORM, "blk.<bid>.ffn_norm") and
\* "model.layers.<bid>.post_attention_layernorm" to
\* (FFN_NORM_EXP, "blk.<bid>.ffn_norm_exps"); a role of ARCTIC without override
\* is resolved to from each of its global aliases and from no other name.
C21_ArcticOverride ==
    (Resolved /\ tmap.arch = "ARCTIC") =>
        /\ \A bid \in 0 .. tmap.n_blocks - 1 :
               /\ ret.key = "model.layers." \o ToString(bid) \o ".residual_layernorm" =>
                      ret.result = <<"FFN_NORM", "blk." \o ToString(bid) \o ".ffn_norm">>
               /\ ret.key = "model.layers." \o ToString(bid) \o ".post_attention_layernorm" =>
                      ret.result = <<"FFN_NORM_EXP", "blk." \o ToString(bid) \o ".ffn_norm_exps">>
        /\ \A role \in RoleSet("ARCTIC") \ Overridden("ARCTIC") :
               /\ \A t \in GlobalAliases(role) : \A bid \in 0 .. tmap.n_blocks - 1 :
                      ret.key = Format(t, bid, 0) =>
                          ret.result = <<role, CanonicalName(role, bid)>>
               /\ (ret.try_suffixes = << >> /\ ret.result # None /\ ret.result[1] = role) =>
                      ret.key \in GlobalNamesOf(role, tmap.n_blocks)

C21_Witness ==
    /\ Resolved
    /\ tmap.arch = "ARCTIC" /\ tmap.n_blocks = 4
    /\ ret.key = "model.layers.3.post_attention_layernorm"
    /\ ret.try_suffixes = << >>
    /\ ret.result = <<"FFN_NORM_EXP", "blk.3.ffn_norm_exps">>

\* The names instantiated from the canonical template and from the alias
\* templates with {bid} of the roles of an architecture, at the block indices
\* 0 .. n, as (role, block index, name), tabulated.
IndexedNames ==
    [ arch \in Range(GGUF_MODEL_ARCH), n \in BlockCounts |->
        UNION { { <<role, b, Format(t, b, 0)>> :
                    t \in { u \in {GGUF_TENSOR_NAMES[role]} \cup BlockAliases(arch, role) :
                              HasBid(u) },
                    b \in 0 .. n } :
                  role \in RoleSet(arch) } ]

\* The names the loop over mappings_cfg registers for an architecture.
TopLevelNames(arch) ==
    UNION { {Text(GGUF_TENSOR_NAMES[role])} \cup { Text(t) : t \in TopAliases(role) } :
              role \in RoleSet(arch) \cap DictKeys(mappings_cfg) }

\* C22 (block index range): on a TensorNameMap built for (arch, n), a name
\* instantiated at block index b from the canonical template or from an alias
\* template with {bid} of a role of the architecture is registered if and only
\* if b < n, and with n = 0 the mapping holds the top-level names only.
C22_BlockIndexRange ==
    /\ (Resolved /\ ret.try_suffixes = << >>) =>
           \A x \in IndexedNames[tmap.arch, tmap.n_blocks] :
               ret.key = x[3] => (ret.result # None <=> x[2] < tmap.n_blocks)
    /\ (tmap.built /\ ret = NoCall /\ tmap.n_blocks = 0) =>
           DOMAIN tmap.mapping = TopLevelNames(tmap.arch)

\* The assignments to self.mapping of one (tensor, keys) item of the block
\* table at one bid, in the order the code makes them: for each xid the
\* canonical name, then the aliases in the order of the tuple.
ItemLog(item, bid) ==
    LET tensor == item[1]
        keys == item[2]
        L == Len(keys) + 1
    IN  [ p \in 1 .. n_experts * L |->
            LET xid == (p - 1) \div L
                j == (p - 1) % L
                tensor_name == Format(GGUF_TENSOR_NAMES[tensor], bid, xid)
            IN  << IF j = 0 THEN tensor_name ELSE Format(keys[j], bid, xid),
                   <<tensor, tensor_name>> >> ]

\* The assignments of one item of mappings_cfg.
TopLog(item) ==
    LET tensor == item[1]
        keys == item[2]
        tensor_name == Text(GGUF_TENSOR_NAMES[tensor])
    IN  [ p \in 1 .. Len(keys) + 1 |->
            << IF p = 1 THEN tensor_name ELSE Text(keys[p - 1]),
               <<tensor, tensor_name>> >> ]

\* The index of the last assignment to key k among the first p of a log.
RECURSIVE LastIndex(_, _, _)
LastIndex(log, k, p) == IF log[p][1] = k THEN p ELSE LastIndex(log, k, p - 1)

\* For every key a log assigns, the value of the last assignment to it.
LastIn(log) ==
    [ k \in { log[p][1] : p \in DOMAIN log } |-> log[LastIndex(log, k, Len(log))][2] ]

ItemLast ==
    [ item \in SourceItems, bid \in BlockCounts |-> LastIn(ItemLog(item, bid)) ]

TopLast == [ i \in DOMAIN mappings_cfg |-> LastIn(TopLog(mappings_cfg[i])) ]

\* The iterations (bid, i) of the block loops of the build that left tmap
\* (block_mappings_cfg holds the table they ran over) which assign key k, and
\* the iterations i of the loop over mappings_cfg which do.
BlockHits(k) ==
    { h \in (0 .. tmap.n_blocks - 1) \X DOMAIN block_mappings_cfg :
        /\ block_mappings_cfg[h[2]][1] \in RoleSet(tmap.arch)
        /\ k \in DOMAIN ItemLast[block_mappings_cfg[h[2]], h[1]] }

TopHits(k) ==
    { i \in DOMAIN mappings_cfg :
        mappings_cfg[i][1] \in RoleSet(tmap.arch) /\ k \in DOMAIN TopLast[i] }

\* The value of the last assignment to k of that build: the blocks come after
\* the top level, a higher bid after a lower one, and within a bid the items
\* in the order of the table.
LastRegistered(k) ==
    IF BlockHits(k) # {}
    THEN LET h == CHOOSE x \in BlockHits(k) :
                      \A y \in BlockHits(k) :
                          y[1] < x[1] \/ (y[1] = x[1] /\ y[2] <= x[2])
         IN  ItemLast[block_mappings_cfg[h[2]], h[1]][k]
    ELSE LET i == CHOOSE x \in TopHits(k) : \A y \in TopHits(k) : y <= x
         IN  TopLast[i][k]

\* The keys that build assigns.
RegisteredKeys ==
    UNION { DOMAIN TopLast[i] :
              i \in { j \in DOMAIN mappings_cfg : mappings_cfg[j][1] \in RoleSet(tmap.arch) } }
        \cup UNION { DOMAIN ItemLast[block_mappings_cfg[h[2]], h[1]] :
                       h \in { x \in (0 .. tmap.n_blocks - 1) \X DOMAIN block_mappings_cfg :
                                 block_mappings_cfg[x[2]][1] \in RoleSet(tmap.arch) } }

\* A TensorNameMap(arch, n_blocks) call for a member of GGUF_MODEL_ARCH has
\* just ended.
Constructed ==
    reg.op = "TensorNameMap" /\ reg.arg[1] \in Range(GGUF_MODEL_ARCH)

\* C23 (last registration wins): a construction never fails on a key that is
\* assigned again, and the mapping it leaves holds, for every key the build
\* assigns, the value of the last assignment, the assignments running over the
\* top-level table, then for each bid in ascending order over the block table
\* with the overrides merged, canonical name before aliases.
C23_LastRegistrationWins ==
    Constructed =>
        /\ reg.result.ok
        /\ DOMAIN tmap.mapping = RegisteredKeys
        /\ \A k \in RegisteredKeys : tmap.mapping[k] = LastRegistered(k)

C23_Witness ==
    /\ Constructed
    /\ reg.arg = <<"LLAMA", 2>>
    /\ reg.result.ok
    /\ TopHits("rope_freqs") # {}
    /\ Cardinality(BlockHits("rope_freqs")) = 2
    /\ tmap.mapping["rope_freqs"] = <<"ROPE_FREQS", "rope_freqs">>

\* The (key, value) pairs that the iteration xid of the xid loop of an item
\* assigns at a bid.
IterationPairs(item, bid, xid) ==
    LET L == Len(item[2]) + 1
    IN  { ItemLog(item, bid)[p] : p \in xid * L + 1 .. (xid + 1) * L }

\* Every iteration of the xid loop of an item assigns the pairs of the first.
IterationsAgree ==
    [ item \in SourceItems, bid \in BlockCounts |->
        \A xid \in 0 .. n_experts - 1 :
            IterationPairs(item, bid, xid) = IterationPairs(item, bid, 0) ]

\* __init__ with one iteration of the xid loop in the place of the loop.
SingleExpertItem(m, arch, item, bid) ==
    IF item[1] \notin RoleSet(arch) THEN m
    ELSE ExpertStep(m, item[1], item[2], bid, 0)

SingleExpertInit(arch, n_blocks, merged) ==
    LET top == ForRange(LAMBDA m, i : TopLevelItem(m, arch, mappings_cfg[i + 1]),
                        EmptyMapping, 0, Len(mappings_cfg))
    IN  ForRange(LAMBDA m, bid :
                     ForRange(LAMBDA mm, i : SingleExpertItem(mm, arch, merged[i + 1], bid),
                              m, 0, Len(merged)),
                 top, 0, n_blocks)

\* C24 (the expert expansion is idempotent): no template carries {xid}, every
\* iteration of the xid loop assigns the same pairs, and the mapping a
\* construction leaves is the one a single iteration per item would leave.
C24_ExpertLoopIdempotent ==
    Constructed =>
        /\ \A t \in Templates : "{xid}" \notin Range(t)
        /\ \A i \in DOMAIN block_mappings_cfg : \A bid \in 0 .. tmap.n_blocks - 1 :
               block_mappings_cfg[i][1] \in RoleSet(tmap.arch) =>
                   IterationsAgree[block_mappings_cfg[i], bid]
        /\ tmap.mapping = SingleExpertInit(tmap.arch, tmap.n_blocks, block_mappings_cfg)

C24_Witness ==
    /\ Constructed
    /\ reg.arg = <<"ARCTIC", 2>>
    /\ IterationPairs(<<"FFN_GATE_EXP", DictGet(block_mappings_cfg_src, "FFN_GATE_EXP")>>, 1, n_experts - 1)
           = IterationPairs(<<"FFN_GATE_EXP", DictGet(block_mappings_cfg_src, "FFN_GATE_EXP")>>, 1, 0)
    /\ "blk.1.ffn_gate_exps" \in DOMAIN tmap.mapping
    /\ tmap.mapping = SingleExpertInit("ARCTIC", 2, block_mappings_cfg)

\* The (key, value) pairs that the xid loop of an item assigns at a bid, and
\* those that an item of mappings_cfg assigns.
ItemPairs ==
    [ item \in SourceItems, bid \in BlockCounts |-> Range(ItemLog(item, bid)) ]

TopPairs == [ i \in DOMAIN mappings_cfg |-> Range(TopLog(mappings_cfg[i])) ]

\* Every (key, value) pair that the build which left tmap assigned.
RegisteredPairs ==
    UNION { TopPairs[i] :
              i \in { j \in DOMAIN mappings_cfg : mappings_cfg[j][1] \in RoleSet(tmap.arch) } }
        \cup UNION { ItemPairs[block_mappings_cfg[h[2]], h[1]] :
                       h \in { x \in (0 .. tmap.n_blocks - 1) \X DOMAIN block_mappings_cfg :
                                 block_mappings_cfg[x[2]][1] \in RoleSet(tmap.arch) } }

\* C25 (no cross-role collisions): every assignment a construction makes to a
\* key carries the value the mapping ends with for that key, so no key is
\* assigned two different (role, name) values, whatever the order.
C25_NoCrossRoleCollision ==
    Constructed =>
        /\ \A p \in RegisteredPairs :
               p[1] \in DOMAIN tmap.mapping /\ tmap.mapping[p[1]] = p[2]
        /\ \A k \in DOMAIN tmap.mapping : <<k, tmap.mapping[k]>> \in RegisteredPairs

C25_Witness ==
    /\ Constructed
    /\ reg.arg = <<"ARCTIC", 2>>
    /\ <<"model.layers.1.post_attention_layernorm", <<"FFN_NORM_EXP", "blk.1.ffn_norm_exps">> >>
           \in RegisteredPairs
    /\ tmap.mapping["model.layers.1.post_attention_layernorm"]
           = <<"FFN_NORM_EXP", "blk.1.ffn_norm_exps">>

-----------------------------------------------------------------------------
(* The skip table                                                           *)

\* The roles GGUF_MODEL_TENSOR_SKIP lists for an architecture.
SkipSet(arch) ==
    IF arch \in DOMAIN GGUF_MODEL_TENSOR_SKIP THEN Range(GGUF_MODEL_TENSOR_SKIP[arch])
    ELSE {}

\* C26 (skip sets are consistent with role sets): every role that
\* GGUF_MODEL_TENSOR_SKIP lists for an architecture is a role of that
\* architecture.
C26_SkipWithinRoles ==
    (reg.op = "rolesFor" /\ reg.arg[1] \in DOMAIN GGUF_MODEL_TENSOR_SKIP) =>
        /\ reg.result.ok
        /\ SkipSet(reg.arg[1]) \subseteq Range(reg.result.value)

\* The names of the roles that an architecture has and skips, in a
\* TensorNameMap of n blocks, as (role, name, canonical name): the canonical
\* names, the top-level aliases and the block aliases at the indices below n.
SkippedNames ==
    [ arch \in Range(GGUF_MODEL_ARCH), n \in BlockCounts |->
        UNION { { <<role, CanonicalName(role, bid), CanonicalName(role, bid)>> :
                    bid \in ValidBids(role, n) }
                  \cup { <<role, Text(t), CanonicalName(role, 0)>> : t \in TopAliases(role) }
                  \cup { <<role, Format(t, bid, 0), CanonicalName(role, bid)>> :
                           t \in BlockAliases(arch, role), bid \in 0 .. n - 1 } :
                  role \in SkipSet(arch) \cap RoleSet(arch) } ]

\* C27 (the skip set is not consulted): the canonical name and every alias of
\* a role that the architecture has and skips resolve to that role and its
\* canonical name, as for any other role.
C27_SkipNotConsulted ==
    Resolved =>
        \A x \in SkippedNames[tmap.arch, tmap.n_blocks] :
            ret.key = x[2] => ret.result = <<x[1], x[3]>>

C27_Witness ==
    /\ Resolved
    /\ tmap.arch = "LLAMA" /\ tmap.n_blocks = 2
    /\ "ATTN_ROT_EMBD" \in SkipSet("LLAMA") \cap RoleSet("LLAMA")
    /\ ret.key = "model.layers.1.self_attn.rotary_emb.inv_freq"
    /\ ret.result = <<"ATTN_ROT_EMBD", "blk.1.attn_rot_embd">>

-----------------------------------------------------------------------------
(* Resolving again, and the other accessors                                 *)

\* What resolving the returned name with the same suffix list returns.
Again == get_type_and_name(tmap.mapping, ret.result[2], ret.try_suffixes)

\* The indices of the suffixes of the list that the returned name ends with
\* and whose stripped remainder is registered.
NameHits ==
    { i \in DOMAIN ret.try_suffixes :
        /\ IsSuffixed(ret.result[2], ret.try_suffixes[i])
        /\ BaseOf(ret.result[2], ret.try_suffixes[i]) \in DOMAIN tmap.mapping }

\* C28 as stated (resolve is idempotent): if resolving a key with a suffix
\* list returns (role, name), resolving name with the same list returns
\* (role, name) again.
C28_IdempotentAnyList ==
    (Resolved /\ ret.result # None) => Again = ret.result

\* C28 as amended: the same, when the key was registered itself, and after a
\* suffix fallback when the returned name is not a registered name and no
\* suffix earlier in the list than the one the key resolved through applies to
\* the returned name.
C28_Idempotent ==
    ( /\ Resolved
      /\ ret.result # None
      /\ \/ ret.key \in DOMAIN tmap.mapping
         \/ /\ ret.result[2] \notin DOMAIN tmap.mapping
            /\ \A i \in NameHits : \E j \in SuffixHits : j <= i ) =>
        Again = ret.result

C28_Witness ==
    /\ Resolved
    /\ tmap.arch = "LLAMA" /\ tmap.n_blocks = 2
    /\ ret.key = "model.layers.1.self_attn.q_proj.weight"
    /\ ret.try_suffixes = <<".weight">>
    /\ ret.result = <<"ATTN_Q", "blk.1.attn_q.weight">>
    /\ Again = ret.result

-----------------------------------------------------------------------------
(* Indexing and the accessors                                               *)

\* The __getitem__ calls that have reached their return.
Indexed == { c \in Callers : frame[c].pc = "ret" /\ frame[c].op = "__getitem__" }

\* What get_type_and_name returns for the arguments of caller c.
Resolution(c) ==
    get_type_and_name(tmap.mapping, frame[c].key, frame[c].try_suffixes)

\* C29 (indexing is strict): tmap[key] returns the canonical name the key is
\* registered under when the key is itself a key of the mapping, and raises
\* KeyError carrying the key otherwise, also when the key ends with a suffix
\* whose remainder is registered; it never returns the not-found value.
C29_StrictIndexing ==
    \A c \in Indexed :
        /\ frame[c].result # None
        /\ IF frame[c].key \in DOMAIN tmap.mapping
           THEN /\ frame[c].result = <<tmap.mapping[frame[c].key][2]>>
                /\ \E role \in Range(GGUF_MODEL_TENSOR), bid \in 0 .. tmap.n_blocks :
                       frame[c].result[1] = Format(GGUF_TENSOR_NAMES[role], bid, 0)
           ELSE frame[c].result = <<"KeyError", frame[c].key>>

C29_Witness ==
    /\ tmap.built /\ tmap.arch = "LLAMA"
    /\ frame["c1"].pc = "ret" /\ frame["c1"].op = "__getitem__"
    /\ frame["c1"].key = "output.weight"
    /\ get_type_and_name(tmap.mapping, "output.weight", <<".weight">>) # None
    /\ frame["c1"].result = <<"KeyError", "output.weight">>
    /\ frame["c2"].pc = "ret" /\ frame["c2"].op = "__getitem__"
    /\ frame["c2"].key = "blk.0.attn_q"
    /\ frame["c2"].result = <<"blk.0.attn_q">>

\* C30 (accessor agreement): get_name and get_type return the second and the
\* first component of what get_type_and_name returns for the same key and
\* suffix list, and None exactly when it returns None; key in tmap is true
\* exactly when get_type_and_name(key) without suffixes is not None.
C30_AccessorAgreement ==
    \A c \in Callers :
        frame[c].pc = "ret" =>
            /\ frame[c].op = "get_name" =>
                   /\ frame[c].result = None <=> Resolution(c) = None
                   /\ Resolution(c) # None => frame[c].result = <<Resolution(c)[2]>>
            /\ frame[c].op = "get_type" =>
                   /\ frame[c].result = None <=> Resolution(c) = None
                   /\ Resolution(c) # None => frame[c].result = <<Resolution(c)[1]>>
            /\ frame[c].op = "__contains__" =>
                   frame[c].result =
                       (get_type_and_name(tmap.mapping, frame[c].key, << >>) # None)

C30_Witness ==
    /\ tmap.built /\ tmap.arch = "LLAMA"
    /\ frame["c1"].pc = "ret" /\ frame["c1"].op = "get_name"
    /\ frame["c1"].key = "model.layers.0.post_attention_layernorm.weight"
    /\ frame["c1"].try_suffixes = <<".bias", ".weight">>
    /\ frame["c1"].result = <<"blk.0.ffn_norm.weight">>
    /\ frame["c2"].pc = "ret" /\ frame["c2"].op = "__contains__"
    /\ frame["c2"].key = "output.weight"
    /\ frame["c2"].result = FALSE

=============================================================================
